---------------------------- MODULE Spec2Model ----------------------------
(***************************************************************************)
(* Inventory reservation subsystem of the e-commerce platform:             *)
(*   core/entities/inventory.py          InventoryItem, InventoryReservation*)
(*   core/repositories/in_memory_inventory_repository.py                   *)
(*   core/services/inventory_service.py  InventoryService                  *)
(*                                                                         *)
(* Objects live in a heap (heap[ref]); the repository's dicts are          *)
(* insertion-ordered sequences of entries that hold references, as Python  *)
(* dicts do.  Caller threads and the background cleanup worker run the     *)
(* service's methods step by step; a step is a block of code in which no   *)
(* other thread's step can make a difference (one repository call plus the *)
(* entity call made on its result, the entity call being atomic under the  *)
(* entity's own lock; a loop that touches each key once and runs under the *)
(* service lock is one step, since a step of another thread between two    *)
(* iterations has the same effect before or after the loop).               *)
(***************************************************************************)
EXTENDS Integers, Sequences, FiniteSets, TLC

(* ------------------------------ bounds --------------------------------- *)
MaxQty == 2
    \* largest quantity passed to add_inventory
MaxStock == 2
    \* cap on total_received of one InventoryItem (stops unbounded growth)
MaxItems == 3
    \* cap on the number of InventoryItem objects ever constructed
MaxRes == 2
    \* cap on the number of InventoryReservation records ever created
MaxSetup == 2
    \* cap on the number of calls made one after the other before the threads
    \* start to run concurrently
MaxCalls == 2
    \* cap on the number of calls started by the concurrent caller threads
TickMinutes == 16
    \* the clock advances in steps of this many minutes
MaxTicks == 1
    \* number of clock steps

(* --------------------------- program constants ------------------------- *)
default_reservation_expiry_minutes == 15
NoRef == 0
    \* Python None for an object reference or reservation id
NoTime == -1
    \* Python None for an Optional[datetime]

Products == {"p1"}
Warehouses == {"w1", "w2"}
UnknownWarehouse == "w3"
Threads == {"t1", "t2"}
Worker == "cleanup_worker"
AllThreads == Threads \cup {Worker}
NoThread == "none"

Min(a, b) == IF a <= b THEN a ELSE b

(* ------------------- insertion-ordered dict (Python dict) -------------- *)
\* A dict is a sequence of entries [key, val] with distinct keys.
DictHas(d, k) == \E i \in 1..Len(d) : d[i].key = k

DictGet(d, k, default) ==
    IF DictHas(d, k)
    THEN d[CHOOSE i \in 1..Len(d) : d[i].key = k].val
    ELSE default

\* d[k] = v : an existing key keeps its position, a new key is appended.
DictSet(d, k, v) ==
    IF DictHas(d, k)
    THEN [i \in 1..Len(d) |-> IF d[i].key = k THEN [key |-> k, val |-> v] ELSE d[i]]
    ELSE Append(d, [key |-> k, val |-> v])

(* --------------------------- InventoryItem ----------------------------- *)
\* InventoryItem(product_id, warehouse_id, available_quantity, total_received)
\* lock is the thread inside a "with self._lock" block of the object.
NewInventoryItem(p, w, q, recv) ==
    [product_id |-> p, warehouse_id |-> w,
     available_quantity |-> q, reserved_quantity |-> 0,
     total_received |-> recv, total_sold |-> 0, lock |-> NoThread]

\* InventoryItem.reserve: the item after the call, and the returned bool.
ReserveOk(item, quantity) == item.available_quantity >= quantity

ReserveKeepsAvailable(item, quantity) ==
    IF item.available_quantity >= quantity
    THEN [item EXCEPT !.reserved_quantity = @ + quantity]
    ELSE item

Reserve(item, quantity) ==
    IF item.available_quantity >= quantity
    THEN [item EXCEPT !.available_quantity = @ - quantity,
                      !.reserved_quantity = @ + quantity]
    ELSE item

\* InventoryItem.release_reservation: returned amount and the item after.
ReleaseAmount(item, quantity) == Min(quantity, item.reserved_quantity)

ReleaseReservationLosesUnits(item, quantity) ==
    [item EXCEPT !.reserved_quantity = @ - Min(quantity, item.reserved_quantity)]

ReleaseReservationNoMin(item, quantity) ==
    [item EXCEPT !.reserved_quantity = @ - quantity,
                 !.available_quantity = @ + quantity]

ReleaseReservation(item, quantity) ==
    [item EXCEPT !.reserved_quantity = @ - ReleaseAmount(item, quantity),
                 !.available_quantity = @ + ReleaseAmount(item, quantity)]

\* InventoryItem.confirm_reservation: returned amount and the item after.
ConfirmAmount(item, quantity) == Min(quantity, item.reserved_quantity)

ItemConfirmForgetsSold(item, quantity) ==
    [item EXCEPT !.reserved_quantity = @ - Min(quantity, item.reserved_quantity)]

ItemConfirmReservation(item, quantity) ==
    [item EXCEPT !.reserved_quantity = @ - ConfirmAmount(item, quantity),
                 !.total_sold = @ + ConfirmAmount(item, quantity)]

\* InventoryItem.add_stock
AddStock(item, quantity) ==
    [item EXCEPT !.available_quantity = @ + quantity,
                 !.total_received = @ + quantity]

\* InventoryItem.remove_stock: returned amount and the item after.
RemoveAmount(item, quantity) == Min(quantity, item.available_quantity)

RemoveStock(item, quantity) ==
    [item EXCEPT !.available_quantity = @ - RemoveAmount(item, quantity)]

(* ------------------------------- state --------------------------------- *)
VARIABLES
    heap,             \* InventoryItem objects by reference 1..Len(heap)
    inventory_items,  \* repository._inventory_items: dict key -> reference
    reservations,     \* repository._reservations: dict id -> record (id = position)
    warehouses,       \* repository._warehouses: ids of the (active) warehouses
    now,              \* datetime.now(), in minutes
    service_lock,     \* InventoryService._service_lock: holder or NoThread
    th,               \* per thread: position in the method it runs and its locals
    concurrent,       \* FALSE while one thread alone makes the first calls
    calls,            \* number of calls started in the current phase
    entry,            \* one InventoryItem exercised directly (ledger specification)
    entry_ret,        \* the last call made on entry: its name, argument and outcome
    stop_cleanup      \* InventoryService._stop_cleanup: the Event is set

vars == <<heap, inventory_items, reservations, warehouses, now, service_lock,
          th, concurrent, calls, entry, entry_ret, stop_cleanup>>

ledger_vars == <<entry, entry_ret>>

\* entry_ret before any call on entry, and after a call: the call's name,
\* argument and outcome (ret is the returned number, 1 / 0 for True / False),
\* the item as it was before the call (pre), and the same for the call before.
NoCall(item) ==
    [op |-> "none", quantity |-> 0, ret |-> 0, raised |-> FALSE, pre |-> item,
     prev |-> [op |-> "none", quantity |-> 0, ret |-> 0, raised |-> FALSE,
               pre |-> item]]

LastCall(op, quantity, ret, raised) ==
    [op |-> op, quantity |-> quantity, ret |-> ret, raised |-> raised,
     pre |-> entry,
     prev |-> [op |-> entry_ret.op, quantity |-> entry_ret.quantity,
               ret |-> entry_ret.ret, raised |-> entry_ret.raised,
               pre |-> entry_ret.pre]]

phase_vars == <<concurrent, calls>>

Key(p, w) == <<p, w>>
    \* f"{product_id}_{warehouse_id}"

\* repository.find_inventory_item: the reference stored under the key, or None
find_inventory_item(p, w) == DictGet(inventory_items, Key(p, w), NoRef)

\* repository.save_inventory_item: _inventory_items[key of the object] = object
save_inventory_item(items, ref) ==
    DictSet(items, Key(heap[ref].product_id, heap[ref].warehouse_id), ref)

\* repository.find_inventory_by_product: objects in dict order whose product matches
RECURSIVE FilterByProduct(_, _, _)
FilterByProduct(items, hp, p) ==
    IF items = <<>> THEN <<>>
    ELSE LET rest == FilterByProduct(Tail(items), hp, p)
         IN IF hp[Head(items).val].product_id = p
            THEN <<Head(items).val>> \o rest
            ELSE rest

find_inventory_by_product(p) == FilterByProduct(inventory_items, heap, p)

(* ------------------------ thread frames -------------------------------- *)
\* The locals of the method a thread runs.  result is what the call returned
\* or raised; d_avail / d_res / d_sold record, per key, the net change this
\* call's own entity calls made to available_quantity, reserved_quantity and
\* total_sold, created counts the records the call added to the repository,
\* and requested is the quantity the cart asked for, per product.  For a sweep,
\* expired_at_start is the set of records that were ACTIVE and past their
\* expiry when it took its list, invoked the records it called
\* cancel_reservation for, failed those for which that call returned False,
\* and cleaned those its call marked CANCELLED.  For check_availability,
\* cart_items is the cart, j its current line, refs the rest of the list being summed
\* and available the sum so far; heap_seen and items_seen are the items and the
\* index as they were when the call began, and undisturbed says that they were
\* still the same at every read the call has made.  For a method called on
\* an InventoryItem, amount is the local actual_release / actual_confirm /
\* actual_removal (or the quantity), loaded the value of the attribute an
\* augmented assignment has read and not yet written back, ret the value
\* returned, and preceded_by the threads whose call had returned when this one
\* began.  Where only the locking of a call is followed, locks is the rest of
\* its sequence of lock and map accesses and held the locks it holds.  The
\* fields from d_avail
\* to requested, those of the sweep's records, heap_seen, items_seen,
\* undisturbed and preceded_by are bookkeeping for the properties, not program
\* state.
ZeroDelta == [k \in Products \X Warehouses |-> 0]

IdleFrame ==
    [pc |-> "idle", op |-> "none", product_id |-> "none",
     warehouse_id |-> "none", quantity |-> 0, rid |-> NoRef, item |-> NoRef,
     plan |-> <<>>, successfully_reserved |-> <<>>, result |-> "none",
     active |-> <<>>, j |-> 0, expired_count |-> 0,
     expired_at_start |-> {}, invoked |-> {}, failed |-> {}, cleaned |-> {},
     d_avail |-> ZeroDelta, d_res |-> ZeroDelta, d_sold |-> ZeroDelta,
     created |-> 0, requested |-> [p \in Products |-> 0],
     cart_items |-> <<>>, refs |-> <<>>, available |-> 0,
     heap_seen |-> <<>>, items_seen |-> <<>>, undisturbed |-> TRUE,
     amount |-> 0, loaded |-> 0, ret |-> 0, preceded_by |-> {},
     locks |-> <<>>, held |-> {}]

Init ==
    /\ heap = <<>>
    /\ inventory_items = <<>>
    /\ reservations = <<>>
    /\ warehouses = Warehouses
    /\ now = 0
    /\ service_lock = NoThread
    /\ th = [t \in AllThreads |-> IdleFrame]
    /\ concurrent = FALSE
    /\ calls = 0
    /\ entry = NewInventoryItem("p1", "w1", 0, 0)
    /\ entry_ret = NoCall(entry)
    /\ stop_cleanup = FALSE

\* A thread is free to start a call: it runs no call (pc "returned" keeps the
\* outcome of its last call until the thread starts the next one).
Free(t) == th[t].pc \in {"idle", "returned"}

\* At first one thread runs alone; from some point on, possibly in the middle
\* of a call, the threads, the cleanup worker and the clock run concurrently.
StartCall(t) ==
    /\ t \in Threads
    /\ Free(t)
    /\ IF concurrent THEN calls < MaxCalls ELSE calls < MaxSetup /\ t = "t1"

GoConcurrent ==
    /\ ~concurrent
    /\ concurrent' = TRUE
    /\ calls' = 0
    /\ th' = [t \in AllThreads |-> IF Free(t) THEN IdleFrame ELSE th[t]]
    /\ UNCHANGED <<heap, inventory_items, reservations, warehouses, now,
                   service_lock, ledger_vars, stop_cleanup>>

\* The clock advances.
Tick ==
    /\ concurrent
    /\ now + TickMinutes <= MaxTicks * TickMinutes
    /\ now' = now + TickMinutes
    /\ UNCHANGED <<heap, inventory_items, reservations, warehouses, service_lock,
                   th, phase_vars, ledger_vars, stop_cleanup>>

(* ---------------------- InventoryService.add_inventory ----------------- *)
\* Lines 79-88: argument check, warehouse lookup, find_inventory_item.
AddInventoryFind(t, p, w, q) ==
    /\ StartCall(t)
    /\ calls' = calls + 1
    /\ UNCHANGED concurrent
    /\ IF q <= 0
       THEN th' = [th EXCEPT ![t] = [IdleFrame EXCEPT !.pc = "returned",
                       !.op = "add_inventory", !.result = "ValueError"]]
       ELSE IF w \notin warehouses
       THEN th' = [th EXCEPT ![t] = [IdleFrame EXCEPT !.pc = "returned",
                       !.op = "add_inventory",
                       !.result = "InventoryServiceException"]]
       ELSE th' = [th EXCEPT ![t] = [IdleFrame EXCEPT !.pc = "add_save",
                       !.op = "add_inventory", !.product_id = p,
                       !.warehouse_id = w, !.quantity = q,
                       !.item = find_inventory_item(p, w)]]
    /\ UNCHANGED <<heap, inventory_items, reservations, warehouses, now,
                   service_lock, ledger_vars, stop_cleanup>>

\* Lines 90-105: add_stock on the item found, or a new item; then save.
AddInventorySave(t) ==
    LET f == th[t] IN
    /\ f.pc = "add_save"
    /\ concurrent \/ t = "t1"
    /\ IF f.item # NoRef
       THEN /\ heap[f.item].total_received + f.quantity <= MaxStock
            /\ heap' = [heap EXCEPT ![f.item] = AddStock(@, f.quantity)]
            /\ inventory_items' = save_inventory_item(inventory_items, f.item)
       ELSE /\ Len(heap) < MaxItems
            /\ heap' = Append(heap, NewInventoryItem(f.product_id, f.warehouse_id,
                                                     f.quantity, f.quantity))
            /\ inventory_items' = DictSet(inventory_items,
                                          Key(f.product_id, f.warehouse_id),
                                          Len(heap) + 1)
    /\ th' = [th EXCEPT ![t].pc = "returned", ![t].result = "ok"]
    /\ UNCHANGED <<reservations, warehouses, now, service_lock, phase_vars,
                   ledger_vars, stop_cleanup>>

(* ------------- InventoryService._plan_inventory_allocation ------------- *)
\* list.sort(key=available_quantity, reverse=True): stable, so items with equal
\* available_quantity keep the order the repository returned them in.
RECURSIVE InsertDesc(_, _, _)
InsertDesc(sorted, ref, hp) ==
    IF sorted = <<>> THEN <<ref>>
    ELSE IF hp[Head(sorted)].available_quantity >= hp[ref].available_quantity
         THEN <<Head(sorted)>> \o InsertDesc(Tail(sorted), ref, hp)
         ELSE <<ref>> \o sorted

RECURSIVE SortByAvailableDesc(_, _)
SortByAvailableDesc(refs, hp) ==
    IF refs = <<>> THEN <<>>
    ELSE InsertDesc(SortByAvailableDesc(SubSeq(refs, 1, Len(refs) - 1), hp),
                    refs[Len(refs)], hp)

\* Lines 402-410: the inner loop over the sorted items of one product.
RECURSIVE AllocateFrom(_, _, _, _, _)
AllocateFrom(plan, p, remaining_needed, refs, hp) ==
    IF refs = <<>> \/ remaining_needed <= 0
    THEN [plan |-> plan, remaining_needed |-> remaining_needed]
    ELSE LET inventory_item == hp[Head(refs)]
             can_allocate == Min(remaining_needed, inventory_item.available_quantity)
         IN IF can_allocate > 0
            THEN AllocateFrom(DictSet(plan, Key(p, inventory_item.warehouse_id),
                                      can_allocate),
                              p, remaining_needed - can_allocate, Tail(refs), hp)
            ELSE AllocateFrom(plan, p, remaining_needed, Tail(refs), hp)

\* The loop over the cart without the "return None" of lines 412-414
RECURSIVE PlanFromNeverNone(_, _, _, _)
PlanFromNeverNone(plan, cart_items, items, hp) ==
    IF cart_items = <<>> THEN [ok |-> TRUE, plan |-> plan]
    ELSE LET cart_item == Head(cart_items)
             sorted == SortByAvailableDesc(
                           FilterByProduct(items, hp, cart_item.product_id), hp)
             r == AllocateFrom(plan, cart_item.product_id, cart_item.quantity,
                               sorted, hp)
         IN PlanFromNeverNone(r.plan, Tail(cart_items), items, hp)

\* Lines 395-416: the loop over the cart; ok = FALSE is the None result.
RECURSIVE PlanFrom(_, _, _, _)
PlanFrom(plan, cart_items, items, hp) ==
    IF cart_items = <<>> THEN [ok |-> TRUE, plan |-> plan]
    ELSE LET cart_item == Head(cart_items)
             sorted == SortByAvailableDesc(
                           FilterByProduct(items, hp, cart_item.product_id), hp)
             r == AllocateFrom(plan, cart_item.product_id, cart_item.quantity,
                               sorted, hp)
         IN IF r.remaining_needed > 0
            THEN [ok |-> FALSE, plan |-> <<>>]
            ELSE PlanFrom(r.plan, Tail(cart_items), items, hp)

plan_inventory_allocation(cart_items) ==
    PlanFrom(<<>>, cart_items, inventory_items, heap)

(* ---------------------- InventoryService.reserve_items ----------------- *)
\* The net change one entity call made to an object's quantities, added to the
\* running per-key totals of the calling thread.
AddDelta(d, k, amount) == [d EXCEPT ![k] = @ + amount]

ItemKey(item) == Key(item.product_id, item.warehouse_id)

\* The cart's total quantity per product.
RECURSIVE CartTotal(_, _)
CartTotal(cart_items, p) ==
    IF cart_items = <<>> THEN 0
    ELSE (IF Head(cart_items).product_id = p THEN Head(cart_items).quantity ELSE 0)
         + CartTotal(Tail(cart_items), p)

Requested(cart_items) == [p \in Products |-> CartTotal(cart_items, p)]

\* InventoryReservation.create (lines 154-161)
NewReservation(items) ==
    [items |-> items, status |-> "ACTIVE", created_at |-> now,
     expires_at |-> now + default_reservation_expiry_minutes,
     confirmed_at |-> NoTime, cancelled_at |-> NoTime,
     confirmed |-> ZeroDelta, released |-> ZeroDelta, cancelled_by |-> NoThread]

\* Lines 149-155: take the service lock, plan, give up if there is no plan
\* (None, or an empty dict: "if not allocation_plan").
ReserveItemsPlan(t, cart_items) ==
    /\ StartCall(t)
    /\ service_lock = NoThread
    /\ Len(reservations) < MaxRes
    /\ calls' = calls + 1
    /\ UNCHANGED concurrent
    /\ LET r == plan_inventory_allocation(cart_items) IN
       IF ~r.ok \/ r.plan = <<>>
       THEN /\ th' = [th EXCEPT ![t] = [IdleFrame EXCEPT !.pc = "returned",
                         !.op = "reserve_items",
                         !.requested = Requested(cart_items),
                         !.result = "InsufficientInventoryException"]]
            /\ UNCHANGED service_lock
       ELSE /\ th' = [th EXCEPT ![t] = [IdleFrame EXCEPT !.pc = "rsv_apply",
                         !.op = "reserve_items", !.plan = r.plan,
                         !.requested = Requested(cart_items)]]
            /\ service_lock' = t
    /\ UNCHANGED <<heap, inventory_items, reservations, warehouses, now,
                   ledger_vars, stop_cleanup>>

\* Lines 162-175: the loop over the plan, up to its end or to the first entry
\* that cannot be reserved.  st is the running state: the heap, the dict of
\* items, the list kept for the rollback, the holds, and the call's net changes.
RECURSIVE ApplyPlan(_, _)
ApplyPlan(st, plan) ==
    IF plan = <<>> THEN st
    ELSE LET key == Head(plan).key
             quantity == Head(plan).val
             ref == DictGet(st.inventory_items, key, NoRef)
         IN IF ref = NoRef \/ ~ReserveOk(st.heap[ref], quantity)
            THEN [st EXCEPT !.failed = TRUE]
            ELSE LET item == st.heap[ref]
                     after == Reserve(item, quantity)
                 IN ApplyPlan(
                      [st EXCEPT
                         !.heap = [@ EXCEPT ![ref] = after],
                         !.inventory_items = DictSet(@, ItemKey(item), ref),
                         !.successfully_reserved =
                             Append(@, [ref |-> ref, quantity |-> quantity]),
                         !.reserved_items = DictSet(@, key, quantity),
                         !.d_avail = AddDelta(@, ItemKey(item),
                             after.available_quantity - item.available_quantity),
                         !.d_res = AddDelta(@, ItemKey(item),
                             after.reserved_quantity - item.reserved_quantity)],
                      Tail(plan))

ReserveItemsApply(t) ==
    LET f == th[t]
        st == ApplyPlan([heap |-> heap, inventory_items |-> inventory_items,
                         successfully_reserved |-> <<>>, reserved_items |-> <<>>,
                         d_avail |-> ZeroDelta, d_res |-> ZeroDelta,
                         failed |-> FALSE], f.plan)
    IN
    /\ f.pc = "rsv_apply"
    /\ heap' = st.heap
    /\ inventory_items' = st.inventory_items
    /\ IF st.failed
       THEN \* line 166: raise, caught at line 191
            /\ th' = [th EXCEPT ![t].pc = "rsv_rollback", ![t].plan = <<>>,
                         ![t].successfully_reserved = st.successfully_reserved,
                         ![t].d_avail = st.d_avail, ![t].d_res = st.d_res]
            /\ UNCHANGED <<reservations, service_lock>>
       ELSE \* lines 178-189: create and save the record, return its id
            /\ reservations' = Append(reservations, NewReservation(st.reserved_items))
            /\ service_lock' = NoThread
            /\ th' = [th EXCEPT ![t].pc = "returned", ![t].result = "ok",
                         ![t].rid = Len(reservations) + 1, ![t].plan = <<>>,
                         ![t].successfully_reserved = st.successfully_reserved,
                         ![t].d_avail = st.d_avail, ![t].d_res = st.d_res,
                         ![t].created = Len(reservations') - Len(reservations)]
    /\ UNCHANGED <<warehouses, now, phase_vars, ledger_vars, stop_cleanup>>

\* _rollback_reservations (lines 418-425): release on each object that was
\* reserved and save it again.
\* A rollback that releases everything held on the object
RollbackOneReleaseAll(item, quantity) ==
    ReleaseReservation(item, item.reserved_quantity)

RollbackOneKeep(item, quantity) == item

RollbackOne(item, quantity) == ReleaseReservation(item, quantity)

RECURSIVE Rollback(_, _)
Rollback(st, reserved_items) ==
    IF reserved_items = <<>> THEN st
    ELSE LET ref == Head(reserved_items).ref
             quantity == Head(reserved_items).quantity
             item == st.heap[ref]
             after == RollbackOne(item, quantity)
         IN Rollback(
              [st EXCEPT
                 !.heap = [@ EXCEPT ![ref] = after],
                 !.inventory_items = DictSet(@, ItemKey(item), ref),
                 !.d_avail = AddDelta(@, ItemKey(item),
                     after.available_quantity - item.available_quantity),
                 !.d_res = AddDelta(@, ItemKey(item),
                     after.reserved_quantity - item.reserved_quantity)],
              Tail(reserved_items))

\* Lines 191-195: roll back, leave the lock, raise ReservationException.
ReserveItemsRollback(t) ==
    LET f == th[t]
        st == Rollback([heap |-> heap, inventory_items |-> inventory_items,
                        d_avail |-> f.d_avail, d_res |-> f.d_res],
                       f.successfully_reserved)
    IN
    /\ f.pc = "rsv_rollback"
    /\ heap' = st.heap
    /\ inventory_items' = st.inventory_items
    /\ service_lock' = NoThread
    /\ UNCHANGED <<reservations, warehouses, now, phase_vars, ledger_vars, stop_cleanup>>
    /\ th' = [th EXCEPT ![t].pc = "returned",
                        ![t].result = "ReservationException",
                        ![t].d_avail = st.d_avail, ![t].d_res = st.d_res,
                        ![t].created = Len(reservations') - Len(reservations)]

(* ------------------------ InventoryReservation ------------------------- *)
\* is_expired (lines 163-166) and is_active (lines 168-171)
is_expired(r) == now > r.expires_at /\ r.status = "ACTIVE"

is_active(r) == r.status = "ACTIVE" /\ ~is_expired(r)

\* repository.find_reservation: the id if a record is stored under it, else None
find_reservation(rid) == IF rid \in 1..Len(reservations) THEN rid ELSE NoRef

\* The method returns: a caller gets its result, the cleanup worker goes on
\* with its loop (line 350).
\* A sweep that gives up at the first cancellation that fails.
AfterCancelAbortOnFailure(t, f, result) ==
    IF t = Worker
    THEN [f EXCEPT !.pc = "sw_loop", !.result = result, !.rid = NoRef,
                   !.j = IF result = "False" THEN Len(f.active) + 1 ELSE @ + 1,
                   !.expired_count = @ + 1,
                   !.failed = IF result = "False" THEN @ \cup {f.rid} ELSE @,
                   !.d_avail = ZeroDelta, !.d_res = ZeroDelta]
    ELSE [f EXCEPT !.pc = "returned", !.result = result]

AfterCancel(t, f, result) ==
    IF t = Worker
    THEN [f EXCEPT !.pc = "sw_loop", !.result = result, !.rid = NoRef,
                   !.j = @ + 1, !.expired_count = @ + 1,
                   !.failed = IF result = "False" THEN @ \cup {f.rid} ELSE @,
                   !.d_avail = ZeroDelta, !.d_res = ZeroDelta]
    ELSE [f EXCEPT !.pc = "returned", !.result = result]

(* -------------------- InventoryService.cancel_reservation -------------- *)
\* Lines 245-252: look the record up and test its status, outside the lock.
CancelFindSkipStatus(t, f, rid) ==
    IF find_reservation(rid) = NoRef
    THEN AfterCancel(t, [f EXCEPT !.rid = rid], "False")
    ELSE [f EXCEPT !.pc = "cn_lock", !.rid = rid]

CancelFind(t, f, rid) ==
    IF find_reservation(rid) = NoRef
    THEN AfterCancel(t, [f EXCEPT !.rid = rid], "False")
    ELSE IF reservations[rid].status \in {"CONFIRMED", "CANCELLED"}
    THEN AfterCancel(t, [f EXCEPT !.rid = rid], "True")
    ELSE [f EXCEPT !.pc = "cn_lock", !.rid = rid]

\* A caller calls cancel_reservation(rid).
CancelReservationCall(t, rid) ==
    /\ StartCall(t)
    /\ calls' = calls + 1
    /\ UNCHANGED concurrent
    /\ th' = [th EXCEPT ![t] =
                 CancelFind(t, [IdleFrame EXCEPT !.op = "cancel_reservation"], rid)]
    /\ UNCHANGED <<heap, inventory_items, reservations, warehouses, now,
                   service_lock, ledger_vars, stop_cleanup>>

\* The cleanup worker is inside the cancel_reservation it called at line 349.
WorkerCancelFind ==
    /\ th[Worker].pc = "cn_find"
    /\ th' = [th EXCEPT ![Worker] = CancelFind(Worker, th[Worker], th[Worker].rid)]
    /\ UNCHANGED <<heap, inventory_items, reservations, warehouses, now,
                   service_lock, phase_vars, ledger_vars, stop_cleanup>>

\* Entering the block of line 254 without waiting for the service lock
CancelLockAnyway(t) ==
    /\ th[t].pc = "cn_lock"
    /\ service_lock' = t
    /\ th' = [th EXCEPT ![t].pc = "cn_items"]
    /\ UNCHANGED <<heap, inventory_items, reservations, warehouses, now, phase_vars,
                   ledger_vars, stop_cleanup>>

\* Line 254: with self._service_lock
CancelLock(t) ==
    /\ th[t].pc = "cn_lock"
    /\ service_lock = NoThread
    /\ service_lock' = t
    /\ th' = [th EXCEPT ![t].pc = "cn_items"]
    /\ UNCHANGED <<heap, inventory_items, reservations, warehouses, now, phase_vars,
                   ledger_vars, stop_cleanup>>

\* Lines 257-266: the loop over reservation.items.  st is the running state;
\* taken records, per key, what the entity calls returned.
RECURSIVE ReleaseItems(_, _)
ReleaseItems(st, items) ==
    IF items = <<>> THEN st
    ELSE LET key == Head(items).key
             quantity == Head(items).val
             ref == DictGet(st.inventory_items, key, NoRef)
         IN IF ref = NoRef THEN ReleaseItems(st, Tail(items))
            ELSE LET item == st.heap[ref]
                     after == ReleaseReservation(item, quantity)
                 IN ReleaseItems(
                      [st EXCEPT
                         !.heap = [@ EXCEPT ![ref] = after],
                         !.inventory_items = DictSet(@, ItemKey(item), ref),
                         !.taken = AddDelta(@, key, ReleaseAmount(item, quantity)),
                         !.d_avail = AddDelta(@, ItemKey(item),
                             after.available_quantity - item.available_quantity),
                         !.d_res = AddDelta(@, ItemKey(item),
                             after.reserved_quantity - item.reserved_quantity)],
                      Tail(items))

\* InventoryReservation.cancel (lines 181-187): the record after the call;
\* it raises ValueError when the status is CONFIRMED or CANCELLED.
CancelRaises(r) == r.status \in {"CONFIRMED", "CANCELLED"}

ReservationCancelUnguarded(r, t) ==
    [r EXCEPT !.status = "CANCELLED", !.cancelled_at = now, !.cancelled_by = t]

ReservationCancel(r, t) ==
    IF CancelRaises(r) THEN r
    ELSE [r EXCEPT !.status = "CANCELLED", !.cancelled_at = now,
                   !.cancelled_by = t]

AddDeltas(d, e) == [k \in DOMAIN d |-> d[k] + e[k]]

\* Lines 256-277: release the items, mark the record, save it, leave the lock;
\* an exception is caught and turned into the result False.
CancelItems(t) ==
    LET f == th[t]
        r == reservations[f.rid]
        st == ReleaseItems([heap |-> heap, inventory_items |-> inventory_items,
                            taken |-> ZeroDelta,
                            d_avail |-> ZeroDelta, d_res |-> ZeroDelta], r.items)
    IN
    /\ f.pc = "cn_items"
    /\ heap' = st.heap
    /\ inventory_items' = st.inventory_items
    /\ reservations' = [reservations EXCEPT ![f.rid] =
           [ReservationCancel(r, t) EXCEPT !.released = AddDeltas(@, st.taken)]]
    /\ service_lock' = NoThread
    /\ th' = [th EXCEPT ![t] =
                 AfterCancel(t, [f EXCEPT !.d_avail = st.d_avail, !.d_res = st.d_res,
                                          !.cleaned = IF CancelRaises(r) THEN @
                                                      ELSE @ \cup {f.rid}],
                             IF CancelRaises(r) THEN "False" ELSE "True")]
    /\ UNCHANGED <<warehouses, now, phase_vars, ledger_vars, stop_cleanup>>

(* ------------------- InventoryService.confirm_reservation -------------- *)
\* Lines 203-208: look the record up and test is_active(), outside the lock.
\* confirm_reservation without the "not found" answer of lines 204-205
ConfirmFindUnknownAsInactive(f, rid) ==
    IF find_reservation(rid) = NoRef \/ ~is_active(reservations[rid])
    THEN [f EXCEPT !.pc = "returned", !.rid = rid,
                   !.result = "ReservationException: not active"]
    ELSE [f EXCEPT !.pc = "cf_lock", !.rid = rid]

ConfirmFindNoActiveTest(f, rid) ==
    IF find_reservation(rid) = NoRef
    THEN [f EXCEPT !.pc = "returned", !.rid = rid,
                   !.result = "ReservationException: not found"]
    ELSE [f EXCEPT !.pc = "cf_lock", !.rid = rid]

ConfirmFind(f, rid) ==
    IF find_reservation(rid) = NoRef
    THEN [f EXCEPT !.pc = "returned", !.rid = rid,
                   !.result = "ReservationException: not found"]
    ELSE IF ~is_active(reservations[rid])
    THEN [f EXCEPT !.pc = "returned", !.rid = rid,
                   !.result = "ReservationException: not active"]
    ELSE [f EXCEPT !.pc = "cf_lock", !.rid = rid]

ConfirmReservationCall(t, rid) ==
    /\ StartCall(t)
    /\ calls' = calls + 1
    /\ UNCHANGED concurrent
    /\ th' = [th EXCEPT ![t] =
                 ConfirmFind([IdleFrame EXCEPT !.op = "confirm_reservation"], rid)]
    /\ UNCHANGED <<heap, inventory_items, reservations, warehouses, now,
                   service_lock, ledger_vars, stop_cleanup>>

\* Line 210: with self._service_lock
ConfirmLock(t) ==
    /\ th[t].pc = "cf_lock"
    /\ service_lock = NoThread
    /\ service_lock' = t
    /\ th' = [th EXCEPT ![t].pc = "cf_items"]
    /\ UNCHANGED <<heap, inventory_items, reservations, warehouses, now, phase_vars,
                   ledger_vars, stop_cleanup>>

\* Lines 213-222: the loop over reservation.items.
RECURSIVE ConfirmItemsLoop(_, _)
ConfirmItemsLoop(st, items) ==
    IF items = <<>> THEN st
    ELSE LET key == Head(items).key
             quantity == Head(items).val
             ref == DictGet(st.inventory_items, key, NoRef)
         IN IF ref = NoRef THEN ConfirmItemsLoop(st, Tail(items))
            ELSE LET item == st.heap[ref]
                     after == ItemConfirmReservation(item, quantity)
                 IN ConfirmItemsLoop(
                      [st EXCEPT
                         !.heap = [@ EXCEPT ![ref] = after],
                         !.inventory_items = DictSet(@, ItemKey(item), ref),
                         !.taken = AddDelta(@, key, ConfirmAmount(item, quantity)),
                         !.d_res = AddDelta(@, ItemKey(item),
                             after.reserved_quantity - item.reserved_quantity),
                         !.d_sold = AddDelta(@, ItemKey(item),
                             after.total_sold - item.total_sold)],
                      Tail(items))

\* InventoryReservation.confirm (lines 173-179): the record after the call;
\* it raises ValueError when the record is not is_active().
ConfirmRaises(r) == ~is_active(r)

ReservationConfirm(r) ==
    IF ConfirmRaises(r) THEN r
    ELSE [r EXCEPT !.status = "CONFIRMED", !.confirmed_at = now]

\* Lines 212-237: confirm the items, mark the record, save it, leave the lock;
\* an exception is caught and raised again as ReservationException.
ConfirmItems(t) ==
    LET f == th[t]
        r == reservations[f.rid]
        st == ConfirmItemsLoop([heap |-> heap, inventory_items |-> inventory_items,
                                taken |-> ZeroDelta,
                                d_res |-> ZeroDelta, d_sold |-> ZeroDelta], r.items)
    IN
    /\ f.pc = "cf_items"
    /\ heap' = st.heap
    /\ inventory_items' = st.inventory_items
    /\ reservations' = [reservations EXCEPT ![f.rid] =
           [ReservationConfirm(r) EXCEPT !.confirmed = AddDeltas(@, st.taken)]]
    /\ service_lock' = NoThread
    /\ th' = [th EXCEPT ![t].pc = "returned",
                 ![t].d_res = st.d_res, ![t].d_sold = st.d_sold,
                 ![t].result = IF ConfirmRaises(r)
                               THEN "ReservationException: confirmation failed"
                               ELSE "True"]
    /\ UNCHANGED <<warehouses, now, phase_vars, ledger_vars, stop_cleanup>>

(* --------------- InventoryService.cleanup_expired_reservations --------- *)
\* repository.find_active_reservations: ids, in dict order, of the records
\* whose stored status is ACTIVE.
RECURSIVE ActiveFrom(_, _)
ActiveFrom(rs, n) ==
    IF n > Len(rs) THEN <<>>
    ELSE IF rs[n].status = "ACTIVE"
         THEN <<n>> \o ActiveFrom(rs, n + 1)
         ELSE ActiveFrom(rs, n + 1)

find_active_reservations == ActiveFrom(reservations, 1)

\* SweepScan without the test of the stop flag: the worker would wake up and
\* sweep whether or not shutdown() has been called.
SweepScanIgnoringStop ==
    /\ concurrent
    /\ Free(Worker)
    /\ find_active_reservations # <<>>
    /\ th' = [th EXCEPT ![Worker] =
                 [IdleFrame EXCEPT !.pc = "sw_loop",
                                   !.op = "cleanup_expired_reservations",
                                   !.active = find_active_reservations, !.j = 1,
                                   !.expired_at_start =
                                       {r \in 1..Len(reservations) :
                                            is_expired(reservations[r])}]]
    /\ UNCHANGED <<heap, inventory_items, reservations, warehouses, now,
                   service_lock, phase_vars, ledger_vars, stop_cleanup>>

\* cleanup_worker wakes up (line 438: _stop_cleanup.wait times out, the Event
\* not being set) and the sweep takes its list (line 343).
\* A sweep that lists nothing returns 0 at once and changes nothing: it is left
\* out as a stuttering step.
SweepScan ==
    /\ concurrent
    /\ Free(Worker)
    /\ ~stop_cleanup
    /\ find_active_reservations # <<>>
    /\ th' = [th EXCEPT ![Worker] =
                 [IdleFrame EXCEPT !.pc = "sw_loop",
                                   !.op = "cleanup_expired_reservations",
                                   !.active = find_active_reservations, !.j = 1,
                                   !.expired_at_start =
                                       {r \in 1..Len(reservations) :
                                            is_expired(reservations[r])}]]
    /\ UNCHANGED <<heap, inventory_items, reservations, warehouses, now,
                   service_lock, phase_vars, ledger_vars, stop_cleanup>>

\* Lines 346-349: the test of one listed reservation.
SweepExamine(f) ==
    IF is_expired(reservations[f.active[f.j]])
    THEN [f EXCEPT !.pc = "cn_find", !.rid = f.active[f.j],
                   !.invoked = @ \cup {f.active[f.j]}]
    ELSE [f EXCEPT !.j = @ + 1]

SweepLoop ==
    LET f == th[Worker] IN
    /\ f.pc = "sw_loop"
    /\ f.j <= Len(f.active)
    /\ th' = [th EXCEPT ![Worker] = SweepExamine(f)]
    /\ UNCHANGED <<heap, inventory_items, reservations, warehouses, now,
                   service_lock, phase_vars, ledger_vars, stop_cleanup>>

\* Lines 354-357: the sweep returns its count, which cleanup_worker drops
\* (line 440) before it waits for the next interval.
SweepDone ==
    LET f == th[Worker] IN
    /\ f.pc = "sw_loop"
    /\ f.j > Len(f.active)
    /\ th' = [th EXCEPT ![Worker] = IdleFrame]
    /\ UNCHANGED <<heap, inventory_items, reservations, warehouses, now,
                   service_lock, phase_vars, ledger_vars, stop_cleanup>>

(* ------------------------------ specification -------------------------- *)
MaxCartQty == MaxStock * Cardinality(Warehouses)

CartItems == [product_id : Products, quantity : 1..MaxCartQty]

Carts == {<<>>} \cup {<<a>> : a \in CartItems}
                \cup {<<a, b>> : a \in CartItems, b \in CartItems}

\* Stocking and reserving: add_inventory and reserve_items.
Next ==
    \/ GoConcurrent
    \/ \E t \in Threads, p \in Products, w \in Warehouses \cup {UnknownWarehouse},
          q \in 0..MaxQty : AddInventoryFind(t, p, w, q)
    \/ \E t \in Threads : AddInventorySave(t)
    \/ \E t \in Threads, c \in Carts : ReserveItemsPlan(t, c)
    \/ \E t \in Threads : ReserveItemsApply(t)
    \/ \E t \in Threads : ReserveItemsRollback(t)

Spec == Init /\ [][Next]_vars

(* ------------- reservation life cycle on a stocked repository ---------- *)
\* The state after add_warehouse and add_inventory calls have stocked the
\* product: one item per stocked warehouse, nothing reserved or sold yet.
StockedHeap(a, b) ==
    IF b = 0 THEN <<NewInventoryItem("p1", "w1", a, a)>>
    ELSE <<NewInventoryItem("p1", "w1", a, a), NewInventoryItem("p1", "w2", b, b)>>

StockedIndex(b) ==
    IF b = 0 THEN <<[key |-> Key("p1", "w1"), val |-> 1]>>
    ELSE <<[key |-> Key("p1", "w1"), val |-> 1], [key |-> Key("p1", "w2"), val |-> 2]>>

Stocked(c) ==
    /\ \E a \in 1..MaxStock, b \in 0..MaxStock :
          /\ a + b = MaxStock
          /\ heap = StockedHeap(a, b)
          /\ inventory_items = StockedIndex(b)
    /\ reservations = <<>>
    /\ warehouses = Warehouses
    /\ now = 0
    /\ service_lock = NoThread
    /\ th = [t \in AllThreads |-> IdleFrame]
    /\ concurrent = c
    /\ calls = 0
    /\ entry = NewInventoryItem("p1", "w1", 0, 0)
    /\ entry_ret = NoCall(entry)
    /\ stop_cleanup = FALSE

InitStocked == Stocked(FALSE)

KnownOrNextId == 1..Len(reservations) + 1
    \* the ids of the stored records and one id that is not stored

NextReservations ==
    \/ GoConcurrent
    \/ Tick
    \/ \E t \in Threads, c \in Carts : ReserveItemsPlan(t, c)
    \/ \E t \in Threads : ReserveItemsApply(t)
    \/ \E t \in Threads, rid \in KnownOrNextId : CancelReservationCall(t, rid)
    \/ WorkerCancelFind
    \/ \E t \in AllThreads : CancelLock(t)
    \/ \E t \in AllThreads : CancelItems(t)
    \/ \E t \in Threads, rid \in KnownOrNextId : ConfirmReservationCall(t, rid)
    \/ \E t \in Threads : ConfirmLock(t)
    \/ \E t \in Threads : ConfirmItems(t)
    \/ SweepScan
    \/ SweepLoop
    \/ SweepDone

SpecReservations == InitStocked /\ [][NextReservations]_vars

\* The service in use from the start, with every thread scheduled fairly:
\* cleanup_worker keeps waking up and running its sweep (the loop of lines
\* 438-440), and the thread that holds the service lock goes on to the end of
\* its with block.
InitSweep == Stocked(TRUE)

NextSweep ==
    \/ Tick
    \/ \E t \in Threads, c \in Carts : ReserveItemsPlan(t, c)
    \/ \E t \in Threads : ReserveItemsApply(t)
    \/ \E t \in Threads, rid \in KnownOrNextId : CancelReservationCall(t, rid)
    \/ WorkerCancelFind
    \/ \E t \in AllThreads : CancelLock(t)
    \/ \E t \in AllThreads : CancelItems(t)
    \/ \E t \in Threads, rid \in KnownOrNextId : ConfirmReservationCall(t, rid)
    \/ \E t \in Threads : ConfirmLock(t)
    \/ \E t \in Threads : ConfirmItems(t)
    \/ SweepScan
    \/ SweepLoop
    \/ SweepDone

WorkerSteps ==
    \/ SweepScan
    \/ SweepLoop
    \/ SweepDone
    \/ WorkerCancelFind
    \/ CancelLock(Worker)
    \/ CancelItems(Worker)

\* A thread inside a with self._service_lock block runs to the end of the
\* block: the lock is not held by a caller for ever.
LockHolderLeaves == []<>(service_lock \notin Threads)

SpecSweep ==
    /\ InitSweep
    /\ [][NextSweep]_vars
    /\ WF_vars(WorkerSteps)
    /\ LockHolderLeaves

(* ---------------- concurrent reserve_items calls only ------------------ *)
\* The threads run concurrently from the start and call nothing but
\* reserve_items, so no stock is added and no hold is released.
InitRace == Stocked(TRUE)

NextRace ==
    \/ \E t \in Threads, c \in Carts : ReserveItemsPlan(t, c)
    \/ \E t \in Threads : ReserveItemsApply(t)

SpecRace == InitRace /\ [][NextRace]_vars

(* -------------------- one InventoryItem, called directly --------------- *)
\* Any sequence of reserve, release_reservation, confirm_reservation, add_stock
\* and remove_stock calls on one item.  Each call runs under the item's lock
\* from its first read to its last write, so concurrent calls take effect one
\* at a time, in some order.  A quantity <= 0 raises ValueError before the lock.
InitLedger ==
    /\ \E a \in 0..MaxStock : entry = NewInventoryItem("p1", "w1", a, 0)
    /\ entry_ret = NoCall(entry)
    /\ stop_cleanup = FALSE
    /\ heap = <<>>
    /\ inventory_items = <<>>
    /\ reservations = <<>>
    /\ warehouses = Warehouses
    /\ now = 0
    /\ service_lock = NoThread
    /\ th = [t \in AllThreads |-> IdleFrame]
    /\ concurrent = TRUE
    /\ calls = 0

service_vars == <<heap, inventory_items, reservations, warehouses, now,
                  service_lock, th, concurrent, calls, stop_cleanup>>

Raised(op, quantity) == LastCall(op, quantity, 0, TRUE)

LedgerQuantities == -1..MaxQty

\* reserve without the argument check of lines 60-61
LedgerReserveUnchecked(quantity) ==
    /\ entry' = Reserve(entry, quantity)
    /\ entry_ret' = LastCall("reserve", quantity,
                              IF ReserveOk(entry, quantity) THEN 1 ELSE 0, FALSE)
    /\ UNCHANGED service_vars

\* reserve (lines 51-69); ret is 1 for True and 0 for False
LedgerReserve(quantity) ==
    /\ IF quantity <= 0
       THEN entry' = entry /\ entry_ret' = Raised("reserve", quantity)
       ELSE /\ entry' = Reserve(entry, quantity)
            /\ entry_ret' = LastCall("reserve", quantity,
                                      IF ReserveOk(entry, quantity) THEN 1 ELSE 0, FALSE)
    /\ UNCHANGED service_vars

\* release_reservation (lines 71-85)
LedgerRelease(quantity) ==
    /\ IF quantity <= 0
       THEN entry' = entry /\ entry_ret' = Raised("release_reservation", quantity)
       ELSE /\ entry' = ReleaseReservation(entry, quantity)
            /\ entry_ret' = LastCall("release_reservation", quantity,
                                      ReleaseAmount(entry, quantity), FALSE)
    /\ UNCHANGED service_vars

\* confirm_reservation (lines 87-101)
LedgerConfirm(quantity) ==
    /\ IF quantity <= 0
       THEN entry' = entry /\ entry_ret' = Raised("confirm_reservation", quantity)
       ELSE /\ entry' = ItemConfirmReservation(entry, quantity)
            /\ entry_ret' = LastCall("confirm_reservation", quantity,
                                      ConfirmAmount(entry, quantity), FALSE)
    /\ UNCHANGED service_vars

\* add_stock (lines 103-111)
LedgerAddStock(quantity) ==
    /\ IF quantity <= 0
       THEN entry' = entry /\ entry_ret' = Raised("add_stock", quantity)
       ELSE /\ entry.total_received + quantity <= MaxStock
            /\ entry' = AddStock(entry, quantity)
            /\ entry_ret' = LastCall("add_stock", quantity, 0, FALSE)
    /\ UNCHANGED service_vars

\* remove_stock (lines 113-126)
LedgerRemoveStock(quantity) ==
    /\ IF quantity <= 0
       THEN entry' = entry /\ entry_ret' = Raised("remove_stock", quantity)
       ELSE /\ entry' = RemoveStock(entry, quantity)
            /\ entry_ret' = LastCall("remove_stock", quantity,
                                      RemoveAmount(entry, quantity), FALSE)
    /\ UNCHANGED service_vars

NextLedger ==
    \/ \E q \in LedgerQuantities : LedgerReserve(q)
    \/ \E q \in LedgerQuantities : LedgerRelease(q)
    \/ \E q \in LedgerQuantities : LedgerConfirm(q)
    \/ \E q \in LedgerQuantities : LedgerAddStock(q)
    \/ \E q \in LedgerQuantities : LedgerRemoveStock(q)

SpecLedger == InitLedger /\ [][NextLedger]_vars

(* ------------------------------ properties ----------------------------- *)
Keys == Products \X Warehouses

Returned(t, op) == th[t].pc = "returned" /\ th[t].op = op

\* C1: reserve_items is all-or-nothing.  When a call has returned a
\* reservation id, it added exactly one record, and for every key the quantity
\* the record holds is the quantity the call moved from available to reserved
\* on the ledger entries; when it has failed, the call's own net change to
\* every entry's available and reserved quantity is zero and it added no
\* record.
C1_AllOrNothing ==
    \A t \in Threads :
        Returned(t, "reserve_items") =>
            IF th[t].result = "ok"
            THEN /\ th[t].created = 1
                 /\ th[t].rid \in 1..Len(reservations)
                 /\ \A k \in Keys :
                       /\ DictGet(reservations[th[t].rid].items, k, 0) = th[t].d_res[k]
                       /\ th[t].d_avail[k] = -th[t].d_res[k]
            ELSE /\ th[t].created = 0
                 /\ th[t].d_avail = ZeroDelta
                 /\ th[t].d_res = ZeroDelta

\* A call failed with ReservationException after it had reserved on an entry,
\* so the rollback had a hold to release.
C1_Witness ==
    \E t \in Threads :
        /\ Returned(t, "reserve_items")
        /\ th[t].result = "ReservationException"
        /\ th[t].successfully_reserved # <<>>

\* The quantity of product p that was available before any reservation: in
\* SpecRace nothing is added, so it is what the stocked entries received.
RECURSIVE SumReceived(_, _)
SumReceived(refs, hp) ==
    IF refs = <<>> THEN 0
    ELSE hp[Head(refs)].total_received + SumReceived(Tail(refs), hp)

AvailableBefore(p) == SumReceived(find_inventory_by_product(p), heap)

HeldFor(r, p) ==
    LET w1 == DictGet(r.items, Key(p, "w1"), 0)
        w2 == DictGet(r.items, Key(p, "w2"), 0)
    IN w1 + w2

RECURSIVE SumHeld(_, _)
SumHeld(rs, p) ==
    IF rs = <<>> THEN 0 ELSE HeldFor(Head(rs), p) + SumHeld(Tail(rs), p)

\* C2: of two concurrent reserve_items calls that each ask for the whole
\* available quantity of a product, exactly one succeeds and the other fails
\* with InsufficientInventory or ReservationFailed; and the holds of all the
\* successful concurrent reservations of a product never add up to more than
\* the quantity that was available before them.
C2_NoOverselling ==
    \A p \in Products :
        /\ SumHeld(reservations, p) <= AvailableBefore(p)
        /\ ( /\ calls = 2
             /\ \A t \in Threads :
                   /\ Returned(t, "reserve_items")
                   /\ th[t].requested[p] = AvailableBefore(p) )
           => /\ Cardinality({t \in Threads : th[t].result = "ok"}) = 1
              /\ \A t \in Threads :
                    th[t].result \in {"ok", "InsufficientInventoryException",
                                      "ReservationException"}

\* Both calls asked for everything that was available and both have returned.
C2_Witness ==
    /\ calls = 2
    /\ \A t \in Threads :
          /\ Returned(t, "reserve_items")
          /\ th[t].requested["p1"] = AvailableBefore("p1")
    /\ Len(reservations) = 1

\* C3: after every reserve, release, confirm, add_stock and remove_stock call
\* on a ledger entry, in any order, available_quantity >= 0 and
\* reserved_quantity >= 0.
C3_QuantitiesNonNegative ==
    /\ entry.available_quantity >= 0
    /\ entry.reserved_quantity >= 0

\* A release or a confirm asked for more than was reserved, or a remove for
\* more than was available, and took only what was there.
C3_Witness ==
    /\ entry_ret.op \in {"release_reservation", "confirm_reservation", "remove_stock"}
    /\ ~entry_ret.raised
    /\ entry_ret.ret < entry_ret.quantity

Rids == 1..Len(reservations)

Held(r, k) == DictGet(reservations[r].items, k, 0)

\* C4: a stored status only changes from ACTIVE, to CONFIRMED or CANCELLED;
\* a new record starts ACTIVE, no record is dropped, and EXPIRED is never a
\* stored status.
C4_StatusOneWay ==
    [][/\ Len(reservations') >= Len(reservations)
       /\ \A r \in 1..Len(reservations') :
             /\ reservations'[r].status \in {"ACTIVE", "CONFIRMED", "CANCELLED"}
             /\ IF r <= Len(reservations)
                THEN reservations'[r].status # reservations[r].status
                         => reservations[r].status = "ACTIVE"
                ELSE reservations'[r].status = "ACTIVE"]_vars

\* A cancel that passed the status test while the record was ACTIVE reached
\* InventoryReservation.cancel after a confirm had stored CONFIRMED, and the
\* record kept its status.
C4_Witness ==
    \E t \in AllThreads :
        /\ th[t].op \in {"cancel_reservation", "cleanup_expired_reservations"}
        /\ th[t].result = "False"
        /\ th[t].rid \in Rids
        /\ reservations[th[t].rid].status = "CONFIRMED"

\* C5: whatever confirm_reservation, cancel_reservation and sweep calls run
\* on one reservation, the quantities they take out of the reserved
\* quantities for it (confirmed into sold plus released into available) never
\* exceed what the reservation holds on each ledger entry.
C5_HoldsTakenOnce ==
    \A r \in Rids, k \in Keys :
        reservations[r].confirmed[k] + reservations[r].released[k] <= Held(r, k)

\* C6: confirm_reservation called on a record that is already CONFIRMED
\* raises ReservationException (not active) at once and changes no ledger
\* entry and no record.
C6_SecondConfirmFails ==
    [][\A t \in Threads, rid \in Rids :
          (ConfirmReservationCall(t, rid) /\ reservations[rid].status = "CONFIRMED")
              => /\ th'[t].pc = "returned"
                 /\ th'[t].result = "ReservationException: not active"
                 /\ heap' = heap
                 /\ inventory_items' = inventory_items
                 /\ reservations' = reservations]_vars

\* A confirm call came back with the not-active error on a record that an
\* earlier confirm call had confirmed.
C6_Witness ==
    \E t \in Threads :
        /\ Returned(t, "confirm_reservation")
        /\ th[t].result = "ReservationException: not active"
        /\ th[t].rid \in Rids
        /\ reservations[th[t].rid].status = "CONFIRMED"
        /\ reservations[th[t].rid].confirmed_at # NoTime

\* C7: cancel_reservation called on a record whose stored status is CONFIRMED
\* or CANCELLED returns True at once and changes no ledger entry and no
\* record, so a second cancel leaves the state of the first.
C7_CancelTerminalIsNoOp ==
    [][\A t \in Threads, rid \in Rids :
          (CancelReservationCall(t, rid)
             /\ reservations[rid].status \in {"CONFIRMED", "CANCELLED"})
              => /\ th'[t].pc = "returned"
                 /\ th'[t].result = "True"
                 /\ heap' = heap
                 /\ inventory_items' = inventory_items
                 /\ reservations' = reservations]_vars

\* A cancel call returned True on a CONFIRMED record, which only the early
\* return of line 252 can do.
C7_Witness ==
    \E t \in Threads :
        /\ Returned(t, "cancel_reservation")
        /\ th[t].result = "True"
        /\ th[t].rid \in Rids
        /\ reservations[th[t].rid].status = "CONFIRMED"

\* C8: a confirm_reservation call that has returned on a record that is
\* still ACTIVE and past its expiry failed, and took nothing out of any
\* reserved quantity and added nothing to any total_sold, also when the
\* expiry passed while the call was in progress.
C8_ExpiredConfirmConvertsNothing ==
    \A t \in Threads :
        (/\ Returned(t, "confirm_reservation")
         /\ th[t].rid \in Rids
         /\ is_expired(reservations[th[t].rid]))
            => /\ th[t].result # "True"
               /\ th[t].d_res = ZeroDelta
               /\ th[t].d_sold = ZeroDelta

RECURSIVE UnexpiredHeldFrom(_, _)
UnexpiredHeldFrom(n, k) ==
    IF n > Len(reservations) THEN 0
    ELSE (IF is_active(reservations[n]) THEN Held(n, k) ELSE 0)
         + UnexpiredHeldFrom(n + 1, k)

\* what the ACTIVE reservations that have not expired hold on entry k
UnexpiredHeld(k) == UnexpiredHeldFrom(1, k)

ReservedOn(k) ==
    IF DictHas(inventory_items, k)
    THEN heap[DictGet(inventory_items, k, NoRef)].reserved_quantity
    ELSE 0

\* C9: the sweep cancels only a reservation whose expiry has passed, and its
\* cancellation leaves the holds of the ACTIVE reservations that have not
\* expired in the reserved quantities: an entry that counted them before the
\* sweep's cancellation counts them after it.
C9_SweepSparesUnexpired ==
    [][(th[Worker].pc = "cn_items" /\ CancelItems(Worker)) =>
          /\ now > reservations[th[Worker].rid].expires_at
          /\ \A k \in Keys :
                ReservedOn(k) >= UnexpiredHeld(k)
                    => ReservedOn(k)' >= UnexpiredHeld(k)]_vars

\* C10: with the sweep scheduled fairly, a reservation that is stored ACTIVE
\* and past its expiry is eventually CANCELLED with all of its holds
\* released back to available.
C10_ExpiredEventuallySwept ==
    \A r \in 1..MaxRes :
        (r \in Rids /\ is_expired(reservations[r]))
            ~> (/\ r \in Rids
                /\ reservations[r].status = "CANCELLED"
                /\ \A k \in Keys : reservations[r].released[k] = Held(r, k))

\* the records of the sweep's list that the loop has gone past
Examined(f) == {f.active[i] : i \in 1..Min(f.j - 1, Len(f.active))}

SweepReturning == th[Worker].pc = "sw_loop" /\ th[Worker].j > Len(th[Worker].active)

\* C11 as stated: a sweep in which a cancellation failed has still called
\* cancel_reservation for every record that was ACTIVE and expired when the
\* sweep started.
C11_AllExpiredAtStartInvoked ==
    (SweepReturning /\ th[Worker].failed # {})
        => th[Worker].expired_at_start \subseteq th[Worker].invoked

\* C11, amended: whether or not a cancellation has failed, for every record
\* of its list the sweep has gone past that was ACTIVE and expired at the
\* start it has called cancel_reservation, unless another thread had already
\* cancelled the record when the sweep came to it.
C11_FailureDoesNotAbortSweep ==
    th[Worker].pc = "sw_loop" =>
        \A r \in Examined(th[Worker]) \cap th[Worker].expired_at_start :
            \/ r \in th[Worker].invoked
            \/ reservations[r].status = "CANCELLED"

\* One cancellation of the sweep has failed and the sweep has gone on to call
\* cancel_reservation for another record.
C11_Witness ==
    /\ th[Worker].pc = "sw_loop"
    /\ th[Worker].failed # {}
    /\ \E r \in th[Worker].invoked \ th[Worker].failed :
          \E i, k \in 1..Len(th[Worker].active) :
              /\ i < k
              /\ th[Worker].active[i] \in th[Worker].failed
              /\ th[Worker].active[k] = r

\* C12: the count a sweep returns is the number of records that this sweep
\* itself changed from ACTIVE to CANCELLED; a cancellation that failed, or a
\* record that another thread had already cancelled or confirmed, is not
\* counted.
C12_CountIsCleaned ==
    SweepReturning => th[Worker].expired_count = Cardinality(th[Worker].cleaned)

\* C13: a successful reserve_items followed by cancel_reservation of the
\* returned id, with nothing else running, puts every ledger entry back to
\* what it was before the reserve (here: freshly stocked, so available =
\* total_received, nothing reserved, nothing sold) and leaves the record
\* CANCELLED.
C13_ReserveThenCancelRestores ==
    (/\ ~concurrent
     /\ calls = 2
     /\ Len(reservations) = 1
     /\ Returned("t1", "cancel_reservation")
     /\ th["t1"].rid = 1)
        => /\ th["t1"].result = "True"
           /\ reservations[1].status = "CANCELLED"
           /\ reservations[1].cancelled_at # NoTime
           /\ \E a \in 1..MaxStock, b \in 0..MaxStock :
                 heap = StockedHeap(a, b) /\ inventory_items = StockedIndex(b)

\* The reserve held units in both warehouses and the cancel has returned.
C13_Witness ==
    /\ ~concurrent
    /\ calls = 2
    /\ Len(reservations) = 1
    /\ Returned("t1", "cancel_reservation")
    /\ th["t1"].rid = 1
    /\ Len(reservations[1].items) = 2
    /\ reservations[1].status = "CANCELLED"

\* C14: a confirm_reservation that returned True took exactly the held
\* quantity out of reserved and into total_sold on every entry the reservation
\* holds, changed no available quantity and no other entry, and left the
\* record CONFIRMED.
C14_ConfirmConvertsHolds ==
    \A t \in Threads :
        (Returned(t, "confirm_reservation") /\ th[t].result = "True")
            => /\ reservations[th[t].rid].status = "CONFIRMED"
               /\ th[t].d_avail = ZeroDelta
               /\ \A k \in Keys :
                     /\ th[t].d_res[k] = -Held(th[t].rid, k)
                     /\ th[t].d_sold[k] = Held(th[t].rid, k)

\* the last call on entry was op, with a positive quantity
Did(op) == entry_ret.op = op /\ ~entry_ret.raised

\* C15: reserve(q), q > 0, returns True exactly when available >= q held at
\* the call; on True available is down by q and reserved up by q, on False
\* nothing changed; total_sold and total_received never change.
C15_Reserve ==
    Did("reserve") =>
        LET q == entry_ret.quantity
            pre == entry_ret.pre
        IN /\ q > 0
           /\ (entry_ret.ret = 1) <=> (pre.available_quantity >= q)
           /\ entry_ret.ret \in {0, 1}
           /\ IF entry_ret.ret = 1
              THEN entry = [pre EXCEPT !.available_quantity = @ - q,
                                       !.reserved_quantity = @ + q]
              ELSE entry = pre

\* reserve returned False although something was available
C15_Witness ==
    /\ Did("reserve")
    /\ entry_ret.ret = 0
    /\ entry_ret.pre.available_quantity > 0
    /\ entry_ret.pre.reserved_quantity > 0

Did2(op1, op2) ==
    /\ Did(op2)
    /\ entry_ret.prev.op = op1
    /\ ~entry_ret.prev.raised
    /\ entry_ret.prev.quantity = entry_ret.quantity

\* C16 as stated: reserve(q) followed immediately by release_reservation(q)
\* leaves available and reserved as they were before the reserve.
C16_RoundTrip ==
    Did2("reserve", "release_reservation") =>
        /\ entry.available_quantity = entry_ret.prev.pre.available_quantity
        /\ entry.reserved_quantity = entry_ret.prev.pre.reserved_quantity

\* C16, amended: the round trip holds when the reserve returned True.
C16_RoundTripAfterSuccess ==
    (Did2("reserve", "release_reservation") /\ entry_ret.prev.ret = 1) =>
        /\ entry.available_quantity = entry_ret.prev.pre.available_quantity
        /\ entry.reserved_quantity = entry_ret.prev.pre.reserved_quantity

\* a successful reserve on an entry that already had units reserved, then the
\* release of the same quantity
C16_Witness ==
    /\ Did2("reserve", "release_reservation")
    /\ entry_ret.prev.ret = 1
    /\ entry_ret.prev.pre.reserved_quantity > 0

\* C17: release_reservation(q), q > 0, moves min(q, reserved) units from
\* reserved to available and returns that amount, so available + reserved,
\* total_sold and total_received are unchanged; with reserved = 0 it returns 0
\* and changes nothing.
C17_Release ==
    Did("release_reservation") =>
        LET q == entry_ret.quantity
            pre == entry_ret.pre
            m == IF q < pre.reserved_quantity THEN q ELSE pre.reserved_quantity
        IN /\ q > 0
           /\ entry_ret.ret = m
           /\ entry = [pre EXCEPT !.reserved_quantity = @ - m,
                                  !.available_quantity = @ + m]
           /\ pre.reserved_quantity = 0 => entry_ret.ret = 0 /\ entry = pre

\* a release that asked for more than was reserved
C17_Witness ==
    /\ Did("release_reservation")
    /\ entry_ret.pre.reserved_quantity > 0
    /\ entry_ret.quantity > entry_ret.pre.reserved_quantity

\* C18: confirm_reservation(q), q > 0, moves min(q, reserved) units from
\* reserved into total_sold and returns that amount; available and
\* total_received are unchanged.
C18_Confirm ==
    Did("confirm_reservation") =>
        LET q == entry_ret.quantity
            pre == entry_ret.pre
            m == IF q < pre.reserved_quantity THEN q ELSE pre.reserved_quantity
        IN /\ q > 0
           /\ entry_ret.ret = m
           /\ entry = [pre EXCEPT !.reserved_quantity = @ - m,
                                  !.total_sold = @ + m]
           /\ entry.available_quantity + entry.reserved_quantity
                  = pre.available_quantity + pre.reserved_quantity - entry_ret.ret

\* a confirm that asked for more than was reserved
C18_Witness ==
    /\ Did("confirm_reservation")
    /\ entry_ret.pre.reserved_quantity > 0
    /\ entry_ret.quantity > entry_ret.pre.reserved_quantity

(* ------------------- non-positive quantity arguments ------------------- *)
\* The standalone entry and the service share no state.  A run of SpecInvalid
\* makes at most two calls on the entry (so that the second one can find held
\* units) and then, or instead, calls add_inventory on the service.
LedgerStep ==
    /\ calls = 0
    /\ entry_ret.prev.op = "none"
    /\ \/ \E q \in LedgerQuantities : LedgerReserve(q)
       \/ \E q \in LedgerQuantities : LedgerRelease(q)
       \/ \E q \in LedgerQuantities : LedgerConfirm(q)
       \/ \E q \in LedgerQuantities : LedgerAddStock(q)
       \/ \E q \in LedgerQuantities : LedgerRemoveStock(q)

NextInvalid ==
    \/ LedgerStep
    \/ \E t \in Threads, p \in Products, w \in Warehouses \cup {UnknownWarehouse},
          q \in LedgerQuantities : AddInventoryFind(t, p, w, q)
    \/ \E t \in Threads : AddInventorySave(t)

SpecInvalid == InitLedger /\ [][NextInvalid]_vars

\* The item methods, by name, as one step on the standalone entry.
LedgerCall(op, quantity) ==
    CASE op = "reserve" -> LedgerReserve(quantity)
      [] op = "release_reservation" -> LedgerRelease(quantity)
      [] op = "confirm_reservation" -> LedgerConfirm(quantity)
      [] op = "add_stock" -> LedgerAddStock(quantity)
      [] op = "remove_stock" -> LedgerRemoveStock(quantity)

LedgerOps == {"reserve", "release_reservation", "confirm_reservation",
              "add_stock", "remove_stock"}

\* C19: reserve, release_reservation, confirm_reservation, add_stock and
\* remove_stock called with a quantity <= 0 raise and leave the entry exactly as
\* it was; add_inventory called with a quantity <= 0 returns ValueError at once,
\* never reaching the item lookup or the save, and leaves every item and the
\* repository's index of items as they were.
C19_NonPositiveRejected ==
    [][ /\ \A op \in LedgerOps, q \in LedgerQuantities :
             (q <= 0 /\ LedgerCall(op, q)) =>
                 /\ entry' = entry
                 /\ entry_ret'.raised
                 /\ heap' = heap
                 /\ inventory_items' = inventory_items
        /\ \A t \in Threads, p \in Products,
              w \in Warehouses \cup {UnknownWarehouse}, q \in LedgerQuantities :
             (q <= 0 /\ AddInventoryFind(t, p, w, q)) =>
                 /\ th'[t].pc = "returned"
                 /\ th'[t].result = "ValueError"
                 /\ heap' = heap
                 /\ inventory_items' = inventory_items
                 /\ entry' = entry
      ]_vars

\* C19 witness: an item method has raised on an entry that holds units, and an
\* add_inventory call has returned ValueError on a repository that has an item.
C19_Witness ==
    /\ entry_ret.raised
    /\ entry_ret.quantity <= 0
    /\ entry.reserved_quantity > 0
    /\ entry.available_quantity > 0
    /\ Len(heap) > 0
    /\ \E t \in Threads : Returned(t, "add_inventory") /\ th[t].result = "ValueError"

(* --------------------- planning with several lines --------------------- *)
\* Carts of up to two lines, so that a line that cannot be covered can follow
\* one that can.
PlanningCarts == Carts \cup {<<a, b>> : a \in CartItems, b \in CartItems}

NextPlanning ==
    \/ GoConcurrent
    \/ \E t \in Threads, p \in Products, w \in Warehouses \cup {UnknownWarehouse},
          q \in 0..MaxQty : AddInventoryFind(t, p, w, q)
    \/ \E t \in Threads : AddInventorySave(t)
    \/ \E t \in Threads, c \in PlanningCarts : ReserveItemsPlan(t, c)
    \/ \E t \in Threads : ReserveItemsApply(t)
    \/ \E t \in Threads : ReserveItemsRollback(t)

SpecPlanning == Init /\ [][NextPlanning]_vars

\* The units of product p available over all its items in the repository.
RECURSIVE SumAvailable(_, _)
SumAvailable(refs, hp) ==
    IF refs = <<>> THEN 0
    ELSE hp[Head(refs)].available_quantity + SumAvailable(Tail(refs), hp)

TotalAvailable(p) == SumAvailable(find_inventory_by_product(p), heap)

\* Some line asks for more than all warehouses together have available.
Uncoverable(cart_items) ==
    \E i \in 1..Len(cart_items) :
        cart_items[i].quantity > TotalAvailable(cart_items[i].product_id)

\* C20: the planning step of reserve_items changes no item, no repository
\* index and no reservation record; and when some line of the cart asks for more
\* than is available over all warehouses, the call ends there with
\* InsufficientInventoryException (not ReservationException), having changed no
\* quantity and created no record, and the service lock is free again.
C20_PlanningFailureIsClean ==
    [][ \A t \in Threads, c \in PlanningCarts :
          ReserveItemsPlan(t, c) =>
             /\ heap' = heap
             /\ inventory_items' = inventory_items
             /\ reservations' = reservations
             /\ warehouses' = warehouses
             /\ Uncoverable(c) =>
                  /\ th'[t].pc = "returned"
                  /\ th'[t].result = "InsufficientInventoryException"
                  /\ th'[t].created = 0
                  /\ th'[t].d_avail = ZeroDelta
                  /\ th'[t].d_res = ZeroDelta
                  /\ service_lock' = NoThread
      ]_vars

\* C20 witness: with units available and an earlier reservation holding some,
\* a reserve_items call asking for more than is available has returned
\* InsufficientInventoryException.
C20_Witness ==
    /\ Len(reservations) >= 1
    /\ TotalAvailable("p1") > 0
    /\ \E t \in Threads :
          /\ Returned(t, "reserve_items")
          /\ th[t].result = "InsufficientInventoryException"
          /\ th[t].requested["p1"] > TotalAvailable("p1")

(* ------------------ rollback beside another reservation ---------------- *)
HeldUnits == 1
    \* units an earlier reservation holds on the first item when the run starts

\* The repository after add_inventory calls for (p1, w1) and one reservation
\* that holds HeldUnits of it; c says whether the threads already run
\* concurrently.
HeldRepository(c) ==
    /\ heap = <<[NewInventoryItem("p1", "w1", MaxStock, MaxStock + HeldUnits)
                   EXCEPT !.reserved_quantity = HeldUnits]>>
    /\ inventory_items = <<[key |-> Key("p1", "w1"), val |-> 1]>>
    /\ now = 0
    /\ reservations =
          <<[items |-> <<[key |-> Key("p1", "w1"), val |-> HeldUnits]>>,
             status |-> "ACTIVE", created_at |-> 0,
             expires_at |-> default_reservation_expiry_minutes,
             confirmed_at |-> NoTime, cancelled_at |-> NoTime,
             confirmed |-> ZeroDelta, released |-> ZeroDelta,
             cancelled_by |-> NoThread]>>
    /\ warehouses = Warehouses
    /\ service_lock = NoThread
    /\ th = [t \in AllThreads |-> IdleFrame]
    /\ concurrent = c
    /\ calls = 0
    /\ entry = NewInventoryItem("p1", "w1", 0, 0)
    /\ entry_ret = NoCall(entry)
    /\ stop_cleanup = FALSE

InitHeld == HeldRepository(FALSE)

SpecRollback == InitHeld /\ [][Next]_vars

\* What the list kept for the rollback says was reserved on object ref.
RECURSIVE ReservedByCall(_, _)
ReservedByCall(reserved_items, ref) ==
    IF reserved_items = <<>> THEN 0
    ELSE (IF Head(reserved_items).ref = ref THEN Head(reserved_items).quantity ELSE 0)
         + ReservedByCall(Tail(reserved_items), ref)

\* C21: a reserve_items call whose loop over the plan fails has, at that
\* point, added to each item's reserved_quantity exactly what it lists for the
\* rollback; the rollback then takes exactly that off each item again (and
\* gives it back to available_quantity), touches no reservation record, and the
\* call ends with ReservationException and a zero net change on every entry.
\* What other reservations hold on those items therefore stays in reserved.
C21_RollbackReleasesOwnHolds ==
    [][ \A t \in Threads :
          /\ (ReserveItemsApply(t) /\ th'[t].pc = "rsv_rollback") =>
                /\ Len(heap') = Len(heap)
                /\ \A ref \in 1..Len(heap) :
                      /\ heap'[ref].reserved_quantity = heap[ref].reserved_quantity
                            + ReservedByCall(th'[t].successfully_reserved, ref)
                      /\ heap'[ref].available_quantity = heap[ref].available_quantity
                            - ReservedByCall(th'[t].successfully_reserved, ref)
                /\ reservations' = reservations
          /\ ReserveItemsRollback(t) =>
                /\ th'[t].result = "ReservationException"
                /\ th'[t].pc = "returned"
                /\ Len(heap') = Len(heap)
                /\ \A ref \in 1..Len(heap) :
                      /\ heap'[ref].reserved_quantity = heap[ref].reserved_quantity
                            - ReservedByCall(th[t].successfully_reserved, ref)
                      /\ heap'[ref].available_quantity = heap[ref].available_quantity
                            + ReservedByCall(th[t].successfully_reserved, ref)
                /\ th'[t].d_res = ZeroDelta
                /\ th'[t].d_avail = ZeroDelta
                /\ th'[t].created = 0
                /\ reservations' = reservations
      ]_vars

\* C21 witness: a call has failed with ReservationException after reserving on
\* an item on which the earlier reservation holds units; that reservation is
\* still ACTIVE and its units are still in the item's reserved_quantity.
C21_Witness ==
    \E t \in Threads :
        /\ Returned(t, "reserve_items")
        /\ th[t].result = "ReservationException"
        /\ ReservedByCall(th[t].successfully_reserved, 1) > 0
        /\ reservations[1].status = "ACTIVE"
        /\ heap[1].reserved_quantity = HeldUnits

\* C22: when reserve_items has returned a reservation id, the record holds,
\* for every product, summed over the warehouses, exactly the quantity the cart
\* asked for in all its lines for that product.
C22_HoldsWholeCart ==
    \A t \in Threads :
        (Returned(t, "reserve_items") /\ th[t].result = "ok") =>
            \A p \in Products :
                HeldFor(reservations[th[t].rid], p) = th[t].requested[p]

(* ------------------- InventoryService.check_availability --------------- *)
\* A check that looks at the first line of the cart only
CheckLineFirstOnly(f, j) ==
    IF j > Min(1, Len(f.cart_items))
    THEN [f EXCEPT !.pc = "returned", !.result = "True", !.j = j, !.refs = <<>>]
    ELSE [f EXCEPT !.pc = "chk_sum", !.j = j, !.available = 0,
                   !.refs = find_inventory_by_product(f.cart_items[j].product_id)]

\* get_available_quantity (lines 118-120) for line j of the cart: the list of
\* the product's items is built; the sum over it is then taken one item at a
\* time.  Nothing is locked.  Past the last line the call returns True.
CheckLine(f, j) ==
    IF j > Len(f.cart_items)
    THEN [f EXCEPT !.pc = "returned", !.result = "True", !.j = j, !.refs = <<>>]
    ELSE [f EXCEPT !.pc = "chk_sum", !.j = j, !.available = 0,
                   !.refs = find_inventory_by_product(f.cart_items[j].product_id)]

\* The items and the index are as they were when the call began.
StillAsSeen(f) == f.undisturbed /\ heap = f.heap_seen /\ inventory_items = f.items_seen

\* Lines 128-129: the call starts on the first line of the cart.
CheckAvailabilityCall(t, cart_items) ==
    /\ StartCall(t)
    /\ calls' = calls + 1
    /\ th' = [th EXCEPT ![t] =
                 CheckLine([IdleFrame EXCEPT !.op = "check_availability",
                                !.cart_items = cart_items,
                                !.heap_seen = heap,
                                !.items_seen = inventory_items], 1)]
    /\ UNCHANGED <<heap, inventory_items, reservations, warehouses, now,
                   service_lock, concurrent, ledger_vars, stop_cleanup>>

\* Line 120 and lines 130-135: add the next item's available_quantity; at the
\* end of the list compare with the line's quantity and return False or go on
\* to the next line.
CheckAvailabilitySum(t) ==
    LET f == th[t]
        g == [f EXCEPT !.undisturbed = StillAsSeen(f)]
    IN
    /\ f.pc = "chk_sum"
    /\ concurrent \/ t = "t1"
    /\ th' = [th EXCEPT ![t] =
                 IF f.refs # <<>>
                 THEN [g EXCEPT !.available = @ + heap[Head(f.refs)].available_quantity,
                                !.refs = Tail(f.refs)]
                 ELSE IF f.available < f.cart_items[f.j].quantity
                 THEN [g EXCEPT !.pc = "returned", !.result = "False"]
                 ELSE CheckLine(g, f.j + 1)]
    /\ UNCHANGED <<heap, inventory_items, reservations, warehouses, now,
                   service_lock, phase_vars, ledger_vars, stop_cleanup>>

\* Concurrent callers that check, reserve and cancel.
InitCheck == Stocked(TRUE)

NextCheck ==
    \/ \E t \in Threads, c \in Carts : CheckAvailabilityCall(t, c)
    \/ \E t \in Threads : CheckAvailabilitySum(t)
    \/ \E t \in Threads, c \in Carts : ReserveItemsPlan(t, c)
    \/ \E t \in Threads : ReserveItemsApply(t)
    \/ \E t \in Threads, rid \in KnownOrNextId : CancelReservationCall(t, rid)
    \/ \E t \in Threads : CancelLock(t)
    \/ \E t \in Threads : CancelItems(t)

SpecCheck == InitCheck /\ [][NextCheck]_vars

\* The available units of product p in a given repository state.
TotalAvailableIn(items, hp, p) == SumAvailable(FilterByProduct(items, hp, p), hp)

\* Every line of the cart asks for no more than was available when the call began.
AllLinesCovered(f) ==
    \A i \in 1..Len(f.cart_items) :
        f.cart_items[i].quantity <=
            TotalAvailableIn(f.items_seen, f.heap_seen, f.cart_items[i].product_id)

\* C23: a check_availability call during which no item changed has returned
\* True exactly when every line of its cart asks for no more than the sum of
\* available_quantity over the product's items (reserved units do not count);
\* and no step of the call changes an item, the index or a reservation record.
C23_CheckAvailability ==
    /\ [](\A t \in Threads :
            (Returned(t, "check_availability") /\ th[t].undisturbed) =>
                /\ th[t].result \in {"True", "False"}
                /\ th[t].result = "True" <=> AllLinesCovered(th[t]))
    /\ [][ \A t \in Threads :
             ((\E c \in Carts : CheckAvailabilityCall(t, c)) \/ CheckAvailabilitySum(t))
                => /\ heap' = heap
                   /\ inventory_items' = inventory_items
                   /\ reservations' = reservations
         ]_vars

\* C23 witness: with units held by a reservation and fewer units available, a
\* call for a cart of two lines has returned False on its second line, nothing
\* having changed meanwhile.
C23_Witness ==
    \E t \in Threads :
        /\ Returned(t, "check_availability")
        /\ th[t].undisturbed
        /\ th[t].result = "False"
        /\ th[t].j = 2
        /\ \E ref \in 1..Len(heap) : heap[ref].reserved_quantity > 0
        /\ TotalAvailable("p1") > 0

\* C23, the other answer: a call has returned True for a cart whose line takes
\* units of both warehouses.
C23_WitnessTrue ==
    \E t \in Threads :
        /\ Returned(t, "check_availability")
        /\ th[t].undisturbed
        /\ th[t].result = "True"
        /\ Len(th[t].cart_items) >= 1
        /\ Len(heap) = 2
        /\ th[t].cart_items[1].quantity = TotalAvailable("p1")

\* The quantities of the entry stored under key k in a repository state; an
\* entry that does not exist counts as all zeros.
EntryAt(items, hp, k) ==
    IF DictHas(items, k)
    THEN LET item == hp[DictGet(items, k, NoRef)]
         IN [available_quantity |-> item.available_quantity,
             reserved_quantity |-> item.reserved_quantity,
             total_received |-> item.total_received,
             total_sold |-> item.total_sold]
    ELSE [available_quantity |-> 0, reserved_quantity |-> 0,
          total_received |-> 0, total_sold |-> 0]

\* C24: add_inventory with a positive quantity fails with
\* InventoryServiceException, changing nothing, when the warehouse is not a
\* known active one; otherwise, when it saves, the entry of (product, warehouse)
\* has available_quantity and total_received greater by exactly the quantity
\* than before (counted from 0 if there was no entry), and reserved_quantity
\* and total_sold as before.
C24_AddInventoryAddsExactly ==
    [][ \A t \in Threads :
          /\ \A p \in Products, w \in Warehouses \cup {UnknownWarehouse}, q \in 1..MaxQty :
                (AddInventoryFind(t, p, w, q) /\ w \notin warehouses) =>
                    /\ th'[t].pc = "returned"
                    /\ th'[t].result = "InventoryServiceException"
                    /\ heap' = heap /\ inventory_items' = inventory_items
          /\ AddInventorySave(t) =>
                LET k == Key(th[t].product_id, th[t].warehouse_id)
                    old == EntryAt(inventory_items, heap, k)
                    new == EntryAt(inventory_items', heap', k)
                IN /\ new.available_quantity = old.available_quantity + th[t].quantity
                   /\ new.total_received = old.total_received + th[t].quantity
                   /\ new.reserved_quantity = old.reserved_quantity
                   /\ new.total_sold = old.total_sold
      ]_vars

\* C25: a call with a reservation id under which nothing is stored ends at
\* once - confirm_reservation by raising ReservationException "not found",
\* cancel_reservation by returning False - and changes no item, no index entry
\* and no reservation record.
C25_UnknownIdChangesNothing ==
    [][ \A t \in Threads, rid \in 1..(MaxRes + 1) :
          find_reservation(rid) = NoRef =>
             /\ ConfirmReservationCall(t, rid) =>
                   /\ th'[t].pc = "returned"
                   /\ th'[t].result = "ReservationException: not found"
                   /\ heap' = heap /\ inventory_items' = inventory_items
                   /\ reservations' = reservations
             /\ CancelReservationCall(t, rid) =>
                   /\ th'[t].pc = "returned"
                   /\ th'[t].result = "False"
                   /\ heap' = heap /\ inventory_items' = inventory_items
                   /\ reservations' = reservations
      ]_vars

\* C25 witness: with a reservation holding units, one caller's
\* confirm_reservation and the other's cancel_reservation of an id that is not
\* stored have both returned, and the reservation and its units are as before.
C25_Witness ==
    /\ Len(reservations) = 1
    /\ reservations[1].status = "ACTIVE"
    /\ \E ref \in 1..Len(heap) : heap[ref].reserved_quantity > 0
    /\ \E t, u \in Threads :
          /\ Returned(t, "confirm_reservation")
          /\ th[t].result = "ReservationException: not found"
          /\ th[t].rid > Len(reservations)
          /\ Returned(u, "cancel_reservation")
          /\ th[u].result = "False"
          /\ th[u].rid > Len(reservations)

(* ------------- InventoryReservation methods, called directly ----------- *)
AdditionalMinutes == 15
    \* the additional_minutes passed to extend_expiry

RecordMethods == {"confirm", "cancel", "extend_expiry"}

\* The test each method makes first (lines 175, 183, 191).
RecordRaises(method, r) ==
    CASE method = "confirm" -> ConfirmRaises(r)
      [] method = "cancel" -> CancelRaises(r)
      [] method = "extend_expiry" -> ~is_active(r)

\* The assignments each method makes after its test (lines 178-179, 186-187, 194).
RecordAssign(method, r, t) ==
    CASE method = "confirm" -> [r EXCEPT !.status = "CONFIRMED", !.confirmed_at = now]
      [] method = "cancel" -> [r EXCEPT !.status = "CANCELLED", !.cancelled_at = now,
                                        !.cancelled_by = t]
      [] method = "extend_expiry" -> [r EXCEPT !.expires_at = @ + AdditionalMinutes]

\* A caller calls a method of a record it holds a reference to; the record has
\* no lock, so the test and the assignments are separate steps.
RecordCall(t, method, rid) ==
    /\ StartCall(t)
    /\ rid \in 1..Len(reservations)
    /\ calls' = calls + 1
    /\ th' = [th EXCEPT ![t] =
                 IF RecordRaises(method, reservations[rid])
                 THEN [IdleFrame EXCEPT !.pc = "returned", !.op = method,
                                        !.rid = rid, !.result = "ValueError"]
                 ELSE [IdleFrame EXCEPT !.pc = "rec_write", !.op = method,
                                        !.rid = rid]]
    /\ UNCHANGED <<heap, inventory_items, reservations, warehouses, now,
                   service_lock, concurrent, ledger_vars, stop_cleanup>>

RecordWrite(t) ==
    /\ th[t].pc = "rec_write"
    /\ reservations' = [reservations EXCEPT ![th[t].rid] =
                            RecordAssign(th[t].op, @, t)]
    /\ th' = [th EXCEPT ![t].pc = "returned", ![t].result = "ok"]
    /\ UNCHANGED <<heap, inventory_items, warehouses, now, service_lock,
                   phase_vars, ledger_vars, stop_cleanup>>

\* One reservation exists; callers confirm and cancel it through the service
\* and call its methods directly, and the cleanup worker sweeps.
InitRecord == HeldRepository(TRUE)

NextRecord ==
    \/ Tick
    \/ \E t \in Threads, m \in RecordMethods, rid \in 1..MaxRes : RecordCall(t, m, rid)
    \/ \E t \in Threads : RecordWrite(t)
    \/ \E t \in Threads, rid \in KnownOrNextId : CancelReservationCall(t, rid)
    \/ WorkerCancelFind
    \/ \E t \in AllThreads : CancelLock(t)
    \/ \E t \in AllThreads : CancelItems(t)
    \/ \E t \in Threads, rid \in KnownOrNextId : ConfirmReservationCall(t, rid)
    \/ \E t \in Threads : ConfirmLock(t)
    \/ \E t \in Threads : ConfirmItems(t)
    \/ SweepScan
    \/ SweepLoop
    \/ SweepDone

SpecRecord == InitRecord /\ [][NextRecord]_vars

\* The fields of the InventoryReservation dataclass (lines 139-146).
Fields(r) == [items |-> r.items, status |-> r.status, created_at |-> r.created_at,
              expires_at |-> r.expires_at, confirmed_at |-> r.confirmed_at,
              cancelled_at |-> r.cancelled_at]

Terminal(r) == r.status \in {"CONFIRMED", "CANCELLED"}

\* The assignments of a direct method call whose test was passed while the
\* record was still ACTIVE: the call began before the record became terminal.
EarlierCallWrites(rid) == \E t \in Threads : RecordWrite(t) /\ th[t].rid = rid

\* C26: no operation that starts after a record became CONFIRMED or CANCELLED
\* changes any of its fields: confirm, cancel and extend_expiry raise,
\* confirm_reservation raises, cancel_reservation returns without touching the
\* record, and the sweep does not list it.
C26_TerminalRecordImmutable ==
    [][ \A rid \in 1..Len(reservations) :
          (Terminal(reservations[rid]) /\ ~EarlierCallWrites(rid)) =>
              Fields(reservations'[rid]) = Fields(reservations[rid])
      ]_vars

\* C26 witness: the sweep has cancelled the record; after that a direct cancel()
\* on it has raised and a cancel_reservation of it has returned True, and the
\* record still carries the sweep's cancellation.
C26_Witness ==
    /\ reservations[1].status = "CANCELLED"
    /\ reservations[1].cancelled_by = Worker
    /\ reservations[1].confirmed_at = NoTime
    /\ \E t, u \in Threads :
          /\ Returned(t, "cancel") /\ th[t].rid = 1 /\ th[t].result = "ValueError"
          /\ Returned(u, "cancel_reservation") /\ th[u].rid = 1
          /\ th[u].result = "True"

RECURSIVE ExpiredHeldFrom(_, _)
ExpiredHeldFrom(n, k) ==
    IF n > Len(reservations) THEN 0
    ELSE (IF is_expired(reservations[n]) THEN Held(n, k) ELSE 0)
         + ExpiredHeldFrom(n + 1, k)

\* what the reservations whose expiry has passed and which are still stored as
\* ACTIVE (no cancel_reservation has marked them) hold on entry k
ExpiredHeld(k) == ExpiredHeldFrom(1, k)

\* The position of record n in a list of record ids, 0 if it is not in it.
Listed(ids, n) == \E i \in 1..Len(ids) : ids[i] = n

\* C27: a reservation whose expiry has passed and which nothing has cancelled
\* is stored as ACTIVE, is in the list find_active_reservations returns, and
\* is_active() is false for it; and the units it holds are still in the
\* reserved_quantity of their entries.
C27_ExpiredUnsweptStillHolds ==
    /\ \A n \in 1..Len(reservations) :
          is_expired(reservations[n]) =>
              /\ reservations[n].status = "ACTIVE"
              /\ Listed(find_active_reservations, n)
              /\ ~is_active(reservations[n])
    /\ \A k \in Keys : ReservedOn(k) >= ExpiredHeld(k)

(* ---------------------- InventoryService.restore_items ----------------- *)
\* find_active_warehouses()[0]: the warehouses are registered in the order
\* w1, w2, and the dict keeps that order.
WarehouseOrder == <<"w1", "w2">>

RECURSIVE ActiveWarehousesFrom(_)
ActiveWarehousesFrom(ws) ==
    IF ws = <<>> THEN <<>>
    ELSE IF Head(ws) \in warehouses
         THEN <<Head(ws)>> \o ActiveWarehousesFrom(Tail(ws))
         ELSE ActiveWarehousesFrom(Tail(ws))

find_active_warehouses == ActiveWarehousesFrom(WarehouseOrder)

OrderItems == [product_id : Products, quantity : 0..MaxQty]

Orders == {<<a>> : a \in OrderItems} \cup {<<a, b>> : a \in OrderItems, b \in OrderItems}

\* Line 285: the call takes the service lock.
RestoreItemsCall(t, order_items) ==
    /\ StartCall(t)
    /\ service_lock = NoThread
    /\ service_lock' = t
    /\ calls' = calls + 1
    /\ th' = [th EXCEPT ![t] = [IdleFrame EXCEPT !.pc = "rst_loop",
                    !.op = "restore_items", !.cart_items = order_items,
                    !.j = 1, !.requested = Requested(order_items)]]
    /\ UNCHANGED <<heap, inventory_items, reservations, warehouses, now,
                   concurrent, ledger_vars, stop_cleanup>>

\* Lines 287-306: one order item.  add_stock on the first item of the product,
\* or a new item in the first active warehouse, or nothing when there is no
\* active warehouse; an exception (add_stock with a quantity <= 0) ends the
\* call with False (lines 311-313).
RestoreItemsOne(t) ==
    LET f == th[t]
        order_item == f.cart_items[f.j]
        refs == find_inventory_by_product(order_item.product_id)
        ws == find_active_warehouses
    IN
    /\ f.pc = "rst_loop"
    /\ f.j <= Len(f.cart_items)
    /\ IF refs # <<>>
       THEN IF order_item.quantity <= 0
            THEN /\ th' = [th EXCEPT ![t].pc = "returned", ![t].result = "False"]
                 /\ service_lock' = NoThread
                 /\ UNCHANGED <<heap, inventory_items>>
            ELSE /\ heap[Head(refs)].total_received + order_item.quantity <= MaxStock
                 /\ heap' = [heap EXCEPT ![Head(refs)] = AddStock(@, order_item.quantity)]
                 /\ inventory_items' = save_inventory_item(inventory_items, Head(refs))
                 /\ th' = [th EXCEPT ![t].j = @ + 1,
                              ![t].d_avail = AddDelta(@, ItemKey(heap[Head(refs)]),
                                                      order_item.quantity)]
                 /\ UNCHANGED service_lock
       ELSE IF ws # <<>>
            THEN /\ Len(heap) < MaxItems
                 /\ heap' = Append(heap, NewInventoryItem(order_item.product_id, Head(ws),
                                             order_item.quantity, order_item.quantity))
                 /\ inventory_items' = DictSet(inventory_items,
                                               Key(order_item.product_id, Head(ws)),
                                               Len(heap) + 1)
                 /\ th' = [th EXCEPT ![t].j = @ + 1,
                              ![t].d_avail = AddDelta(@, Key(order_item.product_id, Head(ws)),
                                                      order_item.quantity)]
                 /\ UNCHANGED service_lock
            ELSE /\ th' = [th EXCEPT ![t].j = @ + 1]
                 /\ UNCHANGED <<heap, inventory_items, service_lock>>
    /\ UNCHANGED <<reservations, warehouses, now, phase_vars, ledger_vars, stop_cleanup>>

\* Lines 308-309: past the last order item the call returns True.
RestoreItemsDone(t) ==
    /\ th[t].pc = "rst_loop"
    /\ th[t].j > Len(th[t].cart_items)
    /\ th' = [th EXCEPT ![t].pc = "returned", ![t].result = "True"]
    /\ service_lock' = NoThread
    /\ UNCHANGED <<heap, inventory_items, reservations, warehouses, now,
                   phase_vars, ledger_vars, stop_cleanup>>

\* A service with any of the warehouses registered and active, and no stock
\* yet; callers add inventory and restore order items.
InitRestore ==
    /\ heap = <<>>
    /\ inventory_items = <<>>
    /\ reservations = <<>>
    /\ warehouses \in SUBSET Warehouses
    /\ now = 0
    /\ service_lock = NoThread
    /\ th = [t \in AllThreads |-> IdleFrame]
    /\ concurrent = FALSE
    /\ calls = 0
    /\ entry = NewInventoryItem("p1", "w1", 0, 0)
    /\ entry_ret = NoCall(entry)
    /\ stop_cleanup = FALSE

NextRestore ==
    \/ GoConcurrent
    \/ \E t \in Threads, p \in Products, w \in Warehouses \cup {UnknownWarehouse},
          q \in 0..MaxQty : AddInventoryFind(t, p, w, q)
    \/ \E t \in Threads : AddInventorySave(t)
    \/ \E t \in Threads, o \in Orders : RestoreItemsCall(t, o)
    \/ \E t \in Threads : RestoreItemsOne(t)
    \/ \E t \in Threads : RestoreItemsDone(t)

SpecRestore == InitRestore /\ [][NextRestore]_vars

\* The net change a call made to the available units of product p.
AvailableAddedBy(f, p) == f.d_avail[Key(p, "w1")] + f.d_avail[Key(p, "w2")]

\* C28: a restore_items call that returned True has added to the product's
\* entries exactly the quantities of its order items, product by product, and
\* no step of the call touches a reservation record.
C28_RestoreAddsExactly ==
    /\ [](\A t \in Threads :
            (Returned(t, "restore_items") /\ th[t].result = "True") =>
                \A p \in Products : AvailableAddedBy(th[t], p) = th[t].requested[p])
    /\ [][ \A t \in Threads :
             ((\E o \in Orders : RestoreItemsCall(t, o)) \/ RestoreItemsOne(t)
                  \/ RestoreItemsDone(t)) => reservations' = reservations
         ]_vars

\* available + reserved of the entry stored under key k
OnHand(items, hp, k) ==
    EntryAt(items, hp, k).available_quantity + EntryAt(items, hp, k).reserved_quantity

\* C29: except in a step that confirms held units, available_quantity +
\* reserved_quantity of the entry stored under a key never goes down: not by
\* add_inventory, not by reserve_items or its rollback.
C29_OnHandNeverDecreases ==
    [][ (~ \E t \in Threads : ConfirmItems(t)) =>
           \A k \in Keys :
               OnHand(inventory_items', heap', k) >= OnHand(inventory_items, heap, k)
      ]_vars

(* ----------- concurrent method calls on one InventoryItem -------------- *)
\* Each thread calls one of the five methods on the same item.  A method takes
\* the item's lock, computes its amount, and makes its augmented assignments,
\* each of which reads the attribute and writes it back; the steps below are
\* the places where another thread could run in between if the lock did not
\* keep it out.
FirstField(op) ==
    CASE op = "reserve" -> "available_quantity"
      [] op = "release_reservation" -> "reserved_quantity"
      [] op = "confirm_reservation" -> "reserved_quantity"
      [] op = "add_stock" -> "available_quantity"
      [] op = "remove_stock" -> "available_quantity"

FirstSign(op) == IF op = "add_stock" THEN 1 ELSE -1

\* remove_stock has no second quantity to assign.
SecondField(op) ==
    CASE op = "reserve" -> "reserved_quantity"
      [] op = "release_reservation" -> "available_quantity"
      [] op = "confirm_reservation" -> "total_sold"
      [] op = "add_stock" -> "total_received"
      [] op = "remove_stock" -> "none"

\* Lines 65, 81, 97, 123: the amount the method moves.
MethodAmount(op, item, quantity) ==
    CASE op = "reserve" -> quantity
      [] op = "release_reservation" -> Min(quantity, item.reserved_quantity)
      [] op = "confirm_reservation" -> Min(quantity, item.reserved_quantity)
      [] op = "add_stock" -> quantity
      [] op = "remove_stock" -> Min(quantity, item.available_quantity)

\* The value returned: 1 for True, 0 for False and for None.
MethodReturn(op, amount) ==
    CASE op = "reserve" -> 1
      [] op = "add_stock" -> 0
      [] OTHER -> amount

\* A thread that has not called yet calls a method with a positive quantity.
ItemCall(t, op, quantity) ==
    /\ th[t].pc = "idle"
    /\ th' = [th EXCEPT ![t] =
                 [IdleFrame EXCEPT !.pc = "it_lock", !.op = op, !.quantity = quantity,
                      !.preceded_by = {u \in Threads : th[u].pc = "returned"}]]
    /\ UNCHANGED <<heap, inventory_items, reservations, warehouses, now,
                   service_lock, phase_vars, ledger_vars, stop_cleanup>>

\* An acquire that does not wait for the lock to be free
ItemAcquireAnyway(t) ==
    /\ th[t].pc = "it_lock"
    /\ entry' = [entry EXCEPT !.lock = t]
    /\ th' = [th EXCEPT ![t].pc = "it_read"]
    /\ UNCHANGED <<heap, inventory_items, reservations, warehouses, now,
                   service_lock, phase_vars, entry_ret, stop_cleanup>>

\* with self._lock: the thread waits until the lock is free and takes it.
ItemAcquire(t) ==
    /\ th[t].pc = "it_lock"
    /\ entry.lock = NoThread
    /\ entry' = [entry EXCEPT !.lock = t]
    /\ th' = [th EXCEPT ![t].pc = "it_read"]
    /\ UNCHANGED <<heap, inventory_items, reservations, warehouses, now,
                   service_lock, phase_vars, entry_ret, stop_cleanup>>

\* The test of reserve (line 64) or the min(...) of the others, and the read of
\* the first augmented assignment.  A reserve that cannot be covered returns
\* False, leaving the lock.
ItemRead(t) ==
    LET f == th[t] IN
    /\ f.pc = "it_read"
    /\ IF f.op = "reserve" /\ entry.available_quantity < f.quantity
       THEN /\ th' = [th EXCEPT ![t].pc = "returned", ![t].ret = 0]
            /\ entry' = [entry EXCEPT !.lock = NoThread]
       ELSE /\ th' = [th EXCEPT ![t].pc = "it_write1",
                         ![t].amount = MethodAmount(f.op, entry, f.quantity),
                         ![t].loaded = entry[FirstField(f.op)]]
            /\ UNCHANGED entry
    /\ UNCHANGED <<heap, inventory_items, reservations, warehouses, now,
                   service_lock, phase_vars, entry_ret, stop_cleanup>>

\* The write of the first augmented assignment and the read of the second;
\* remove_stock returns here, leaving the lock.
ItemWriteFirst(t) ==
    LET f == th[t]
        written == [entry EXCEPT ![FirstField(f.op)] = f.loaded + FirstSign(f.op) * f.amount]
    IN
    /\ f.pc = "it_write1"
    /\ IF SecondField(f.op) = "none"
       THEN /\ entry' = [written EXCEPT !.lock = NoThread]
            /\ th' = [th EXCEPT ![t].pc = "returned",
                         ![t].ret = MethodReturn(f.op, f.amount)]
       ELSE /\ entry' = written
            /\ th' = [th EXCEPT ![t].pc = "it_write2",
                         ![t].loaded = written[SecondField(f.op)]]
    /\ UNCHANGED <<heap, inventory_items, reservations, warehouses, now,
                   service_lock, phase_vars, entry_ret, stop_cleanup>>

\* The write of the second augmented assignment; the method returns, leaving
\* the lock.
ItemWriteSecond(t) ==
    LET f == th[t] IN
    /\ f.pc = "it_write2"
    /\ entry' = [entry EXCEPT ![SecondField(f.op)] = f.loaded + f.amount,
                              !.lock = NoThread]
    /\ th' = [th EXCEPT ![t].pc = "returned", ![t].ret = MethodReturn(f.op, f.amount)]
    /\ UNCHANGED <<heap, inventory_items, reservations, warehouses, now,
                   service_lock, phase_vars, entry_ret, stop_cleanup>>

\* An item with some units available and some held.
InitLinear ==
    /\ \E a \in 0..MaxStock, r \in 0..HeldUnits :
          entry = [NewInventoryItem("p1", "w1", a, a + r) EXCEPT !.reserved_quantity = r]
    /\ entry_ret = NoCall(entry)
    /\ stop_cleanup = FALSE
    /\ heap = <<>>
    /\ inventory_items = <<>>
    /\ reservations = <<>>
    /\ warehouses = Warehouses
    /\ now = 0
    /\ service_lock = NoThread
    /\ th = [t \in AllThreads |-> IdleFrame]
    /\ concurrent = TRUE
    /\ calls = 0

NextLinear ==
    \/ \E t \in Threads, op \in LedgerOps, q \in 1..MaxQty : ItemCall(t, op, q)
    \/ \E t \in Threads : ItemAcquire(t)
    \/ \E t \in Threads : ItemRead(t)
    \/ \E t \in Threads : ItemWriteFirst(t)
    \/ \E t \in Threads : ItemWriteSecond(t)

SpecLinear == InitLinear /\ [][NextLinear]_vars

\* One method call run alone on an item: the item after it and its return value.
MethodAlone(op, item, quantity) ==
    CASE op = "reserve" ->
             [item |-> Reserve(item, quantity),
              ret |-> IF ReserveOk(item, quantity) THEN 1 ELSE 0]
      [] op = "release_reservation" ->
             [item |-> ReleaseReservation(item, quantity),
              ret |-> ReleaseAmount(item, quantity)]
      [] op = "confirm_reservation" ->
             [item |-> ItemConfirmReservation(item, quantity),
              ret |-> ConfirmAmount(item, quantity)]
      [] op = "add_stock" -> [item |-> AddStock(item, quantity), ret |-> 0]
      [] op = "remove_stock" ->
             [item |-> RemoveStock(item, quantity), ret |-> RemoveAmount(item, quantity)]

\* The calls of the threads in order, one after the other from item, give the
\* return values the threads got and end in the item final.
RECURSIVE RunsAs(_, _, _)
RunsAs(order, item, final) ==
    IF order = <<>> THEN item = final
    ELSE LET f == th[Head(order)]
             r == MethodAlone(f.op, item, f.quantity)
         IN r.ret = f.ret /\ RunsAs(Tail(order), r.item, final)

\* The orders of the threads that have called which keep a call that had
\* returned before another began in front of it.
LinearOrders(called) ==
    {order \in {<<>>} \cup {<<t>> : t \in Threads}
                      \cup {<<t, u>> : t \in Threads, u \in Threads} :
        /\ {order[i] : i \in 1..Len(order)} = called
        /\ Len(order) = Cardinality(called)
        /\ \A i \in 1..Len(order), j \in 1..Len(order) :
              order[i] \in th[order[j]].preceded_by => i < j}

\* C30: whenever no call on the item is under way, the item's quantities and
\* the values the calls returned are those of the calls made one after the
\* other in some order, an order in which a call that had returned before
\* another began comes first.
C30_Linearizable ==
    (\A t \in Threads : th[t].pc \in {"idle", "returned"}) =>
        \E order \in LinearOrders({t \in Threads : th[t].pc = "returned"}) :
            RunsAs(order, entry_ret.pre, entry)

\* C30 witness: with one unit available, two reserve(1) calls overlapped (the
\* second began before the first had returned); one returned True and the
\* other False, and one unit is reserved.
C30_Witness ==
    /\ entry_ret.pre.available_quantity = 1
    /\ \A t \in Threads :
          /\ Returned(t, "reserve") /\ th[t].quantity = 1 /\ th[t].preceded_by = {}
    /\ \E t, u \in Threads : th[t].ret = 1 /\ th[u].ret = 0
    /\ entry.available_quantity = 0

(* ----------------------- the service-wide lock ------------------------- *)
\* The thread is inside one of the "with self._service_lock" blocks: between
\* planning and the end of reserve_items (with its rollback), or in the item
\* loop of confirm_reservation or cancel_reservation.
InSection(t) == th[t].pc \in {"rsv_apply", "rsv_rollback", "cf_items", "cn_items"}

\* The thread has reached a "with self._service_lock" and waits for the lock.
AtLock(t) == th[t].pc \in {"cf_lock", "cn_lock"}

\* C31: at most one thread is inside the plan-then-apply section of
\* reserve_items or the item loop of confirm_reservation or cancel_reservation,
\* and that thread is the holder of the service lock; a planner therefore never
\* runs while another thread is inside such a section.
C31_SectionsExclusive ==
    \A t \in AllThreads :
        InSection(t) => /\ service_lock = t
                        /\ \A u \in AllThreads \ {t} : ~InSection(u)

\* C31 witness: one caller is between planning and applying its reservation
\* while the other caller and the cleanup worker both wait for the lock.
C31_Witness ==
    \E t, u \in Threads :
        /\ th[t].pc = "rsv_apply"
        /\ AtLock(u)
        /\ AtLock(Worker)

\* ---------------------------------------------------------------------------
\* Shutdown of the cleanup worker (inventory_service.py lines 434-453).

\* shutdown(), line 450: self._stop_cleanup.set().  The join of line 452 waits
\* for at most five seconds and changes nothing; the Event is never cleared.
shutdown ==
    /\ concurrent
    /\ ~stop_cleanup
    /\ stop_cleanup' = TRUE
    /\ UNCHANGED <<heap, inventory_items, reservations, warehouses, now,
                   service_lock, th, phase_vars, ledger_vars>>

\* cleanup_worker, line 438: between two sweeps _stop_cleanup.wait returns
\* True once the Event is set, the while loop ends and the thread returns.
WorkerExit ==
    /\ concurrent
    /\ Free(Worker)
    /\ stop_cleanup
    /\ th' = [th EXCEPT ![Worker] = [IdleFrame EXCEPT !.pc = "terminated"]]
    /\ UNCHANGED <<heap, inventory_items, reservations, warehouses, now,
                   service_lock, phase_vars, ledger_vars, stop_cleanup>>

InitShutdown == HeldRepository(TRUE)

NextShutdown ==
    \/ Tick
    \/ shutdown
    \/ \E t \in Threads, rid \in KnownOrNextId : CancelReservationCall(t, rid)
    \/ WorkerCancelFind
    \/ \E t \in AllThreads : CancelLock(t)
    \/ \E t \in AllThreads : CancelItems(t)
    \/ SweepScan
    \/ SweepLoop
    \/ SweepDone
    \/ WorkerExit

\* The worker thread is scheduled; a caller inside the service lock leaves it.
SpecShutdown ==
    /\ InitShutdown
    /\ [][NextShutdown]_vars
    /\ WF_vars(WorkerSteps \/ WorkerExit)
    /\ LockHolderLeaves

InSweep == th[Worker].pc \notin {"idle", "returned", "terminated"}

\* C32: once shutdown() has set the stop flag the flag stays set and the
\* worker, when between sweeps, starts no sweep; setting the flag leaves the
\* worker's sweep, the records and the ledger as they are, so that a
\* cancellation in progress goes on; the worker terminates only between
\* sweeps, outside the service lock, leaving no record ACTIVE whose holds it
\* has released; and after the flag is set the worker does terminate.
C32_CooperativeShutdown ==
    /\ [][stop_cleanup => stop_cleanup']_vars
    /\ [][stop_cleanup /\ ~InSweep => ~InSweep']_vars
    /\ [][~stop_cleanup /\ stop_cleanup'
            => UNCHANGED <<th, reservations, heap, inventory_items, service_lock>>]_vars
    /\ [][th[Worker].pc # "terminated" /\ th'[Worker].pc = "terminated"
            => ~InSweep /\ service_lock # Worker]_vars
    /\ [](th[Worker].pc = "terminated"
            => /\ service_lock # Worker
               /\ \A r \in 1..Len(reservations) :
                      reservations[r].released # ZeroDelta
                          => reservations[r].status # "ACTIVE")
    /\ stop_cleanup ~> (th[Worker].pc = "terminated")

\* The flag is set while the worker is inside a cancellation of its sweep,
\* holding the service lock with the holds not yet released.
C32_Witness ==
    /\ stop_cleanup
    /\ th[Worker].pc = "cn_items"
    /\ service_lock = Worker
    /\ reservations[th[Worker].rid].status = "ACTIVE"

\* ---------------------------------------------------------------------------
\* The shape of the plan (_plan_inventory_allocation, lines 384-416).

AvailableAt(k) == EntryAt(inventory_items, heap, k).available_quantity

\* C33: in every state and for every cart, the planner reports the cart
\* infeasible exactly when some line asks for more than the product's summed
\* available quantity, and in a plan every quantity is positive and at most
\* the entry's available quantity, a warehouse being drawn on only if every
\* warehouse of the product with strictly more available is drawn on for all
\* of its available quantity.
C33_GreedyPlan ==
    \A cart \in Carts :
        LET r == plan_inventory_allocation(cart) IN
        /\ ~r.ok <=> \E i \in 1..Len(cart) :
                         cart[i].quantity > TotalAvailable(cart[i].product_id)
        /\ r.ok =>
             \A i \in 1..Len(r.plan) :
                 LET k == r.plan[i].key IN
                 /\ r.plan[i].val > 0
                 /\ r.plan[i].val <= AvailableAt(k)
                 /\ \A w \in Warehouses :
                        AvailableAt(Key(k[1], w)) > AvailableAt(k)
                            => DictGet(r.plan, Key(k[1], w), 0)
                                   = AvailableAt(Key(k[1], w))

\* ---------------------------------------------------------------------------
\* Hold accounting between operations.

RECURSIVE ActiveHeldFrom(_, _)
ActiveHeldFrom(n, k) ==
    IF n > Len(reservations) THEN 0
    ELSE (IF reservations[n].status = "ACTIVE" THEN Held(n, k) ELSE 0)
         + ActiveHeldFrom(n + 1, k)

\* what the records whose stored status is ACTIVE hold on entry k
ActiveHeld(k) == ActiveHeldFrom(1, k)

\* no thread is inside a service operation
Quiescent == \A t \in AllThreads : Free(t)

\* C34: whenever no service operation is in progress, the reserved quantity
\* of every entry equals the sum of the quantities held under its key by the
\* records whose stored status is ACTIVE.
C34_ReservedIsActiveHolds ==
    Quiescent => \A k \in Keys : ReservedOn(k) = ActiveHeld(k)

\* ---------------------------------------------------------------------------
\* Stock conservation over all the public operations.

InitConservation == Init

NextConservation ==
    \/ GoConcurrent
    \/ Tick
    \/ \E t \in Threads, p \in Products, w \in Warehouses, q \in 1..MaxQty :
          AddInventoryFind(t, p, w, q)
    \/ \E t \in Threads : AddInventorySave(t)
    \/ \E t \in Threads, a \in OrderItems : RestoreItemsCall(t, <<a>>)
    \/ \E t \in Threads : RestoreItemsOne(t)
    \/ \E t \in Threads : RestoreItemsDone(t)
    \/ \E t \in Threads, c \in Carts : ReserveItemsPlan(t, c)
    \/ \E t \in Threads : ReserveItemsApply(t)
    \/ \E t \in Threads : ReserveItemsRollback(t)
    \/ \E t \in Threads, rid \in KnownOrNextId : CancelReservationCall(t, rid)
    \/ WorkerCancelFind
    \/ \E t \in AllThreads : CancelLock(t)
    \/ \E t \in AllThreads : CancelItems(t)
    \/ \E t \in Threads, rid \in KnownOrNextId : ConfirmReservationCall(t, rid)
    \/ \E t \in Threads : ConfirmLock(t)
    \/ \E t \in Threads : ConfirmItems(t)
    \/ SweepScan
    \/ SweepLoop
    \/ SweepDone

SpecConservation == InitConservation /\ [][NextConservation]_vars

Conserved(item) ==
    item.total_received
        = item.available_quantity + item.reserved_quantity + item.total_sold

\* C35: every InventoryItem the service has created, whether or not the
\* repository still stores it, has total_received = available_quantity +
\* reserved_quantity + total_sold in every reachable state.
C35_StockConserved ==
    \A i \in 1..Len(heap) : Conserved(heap[i])

\* An entry that has units sold (a confirmed reservation) and units held by
\* another reservation at the same time.
C35_Witness ==
    \E i \in 1..Len(heap) :
        /\ heap[i].total_sold >= 1
        /\ heap[i].reserved_quantity >= 1
        /\ \E t \in Threads : Returned(t, "confirm_reservation") /\ th[t].result = "True"

\* C36: an entry the repository stores under a key stays stored under that
\* key and stays the same object: no step drops it or puts another
\* InventoryItem in its place (so that no quantity added to it is lost).
C36_EntryNeverReplaced ==
    [][\A k \in Keys :
           DictHas(inventory_items, k)
               => /\ DictHas(inventory_items', k)
                  /\ DictGet(inventory_items', k, NoRef)
                         = DictGet(inventory_items, k, NoRef)]_vars

\* ---------------------------------------------------------------------------
\* check_availability against reserve_items.

\* thread u has returned from check_availability(cart) and neither during the
\* check nor since has any item or the index changed
CheckedJustNow(u, cart) ==
    /\ Returned(u, "check_availability")
    /\ th[u].cart_items = cart
    /\ StillAsSeen(th[u])

\* C37: when check_availability has answered for a cart and nothing has
\* changed since, a reserve_items call for the same cart that starts next
\* gets past planning (and goes on to hold the plan) if the answer was True,
\* and fails with InsufficientInventoryException if the answer was False.
C37_CheckAgreesWithReserve ==
    [][\A t, u \in Threads : \A cart \in Carts :
           (CheckedJustNow(u, cart) /\ ReserveItemsPlan(t, cart)) =>
               /\ th[u].result = "True" => th'[t].pc = "rsv_apply"
               /\ th[u].result = "False"
                      => /\ th'[t].pc = "returned"
                         /\ th'[t].result = "InsufficientInventoryException"]_vars

\* C38: a confirm_reservation call that has raised took nothing out of any
\* entry's reserved quantity and added nothing to any total_sold.
C38_FailedConfirmChangesNothing ==
    \A t \in Threads :
        (Returned(t, "confirm_reservation") /\ th[t].result # "True")
            => th[t].d_res = ZeroDelta /\ th[t].d_sold = ZeroDelta

\* ---------------------------------------------------------------------------
\* The locking of the operations: which locks each call takes, in which
\* order, and which lookup maps it reads and writes on the way.  A call is a
\* sequence of accesses: acq / rel of a lock (threading.Lock, not re-entrant),
\* find / write of one of the repository's three dicts.

Acq(x) == [e |-> "acq", x |-> x]
Rel(x) == [e |-> "rel", x |-> x]
Find(m) == [e |-> "find", x |-> m]
Write(m) == [e |-> "write", x |-> m]

ItemLocks == {"item1", "item2"}
EntryOrRepositoryLocks == ItemLocks \cup {"repository"}

\* in_memory_inventory_repository.py: save_* write under the repository lock,
\* find_* read without it.
SaveItemLocking == <<Acq("repository"), Write("inventory_items"), Rel("repository")>>
SaveReservationLocking == <<Acq("repository"), Write("reservations"), Rel("repository")>>
SaveWarehouseLocking == <<Acq("repository"), Write("warehouses"), Rel("repository")>>

\* reserve, release_reservation, confirm_reservation, add_stock of one entry:
\* the body runs inside with self._lock.
ItemMethod(i) == <<Acq(i), Rel(i)>>

\* get_low_stock_products, reached from confirm_reservation through
\* _check_low_stock_alerts when a notifier is configured
LowStockLocking == <<Find("warehouses"), Find("inventory_items")>>

\* cancel_reservation on an ACTIVE record holding units of entry i
CancelProgram(i) ==
    <<Find("reservations"), Acq("service"), Find("inventory_items")>>
        \o ItemMethod(i) \o SaveItemLocking \o SaveReservationLocking
        \o <<Rel("service")>>

\* The calls of the callers: add_warehouse; add_inventory on an entry that
\* exists and on one that does not; check_availability; reserve_items that is
\* infeasible, that holds one entry, and that fails on its second entry and
\* rolls the first back; confirm_reservation on an unknown id, and on an
\* ACTIVE record with and without a notifier; cancel_reservation;
\* restore_items on a product that has an entry and on one that has none.
CallerPrograms ==
    {SaveWarehouseLocking,
     <<Find("warehouses"), Find("inventory_items")>> \o ItemMethod("item1")
         \o SaveItemLocking,
     <<Find("warehouses"), Find("inventory_items")>> \o SaveItemLocking,
     <<Find("inventory_items")>>,
     <<Acq("service"), Find("inventory_items"), Rel("service")>>,
     <<Acq("service"), Find("inventory_items"), Find("inventory_items")>>
         \o ItemMethod("item1") \o SaveItemLocking \o SaveReservationLocking
         \o <<Rel("service")>>,
     <<Acq("service"), Find("inventory_items"), Find("inventory_items")>>
         \o ItemMethod("item1") \o SaveItemLocking
         \o <<Find("inventory_items")>> \o ItemMethod("item2")
         \o ItemMethod("item1") \o SaveItemLocking \o <<Rel("service")>>,
     <<Find("reservations")>>,
     <<Find("reservations"), Acq("service"), Find("inventory_items")>>
         \o ItemMethod("item1") \o SaveItemLocking \o SaveReservationLocking
         \o <<Rel("service")>>,
     <<Find("reservations"), Acq("service"), Find("inventory_items")>>
         \o ItemMethod("item1") \o SaveItemLocking \o SaveReservationLocking
         \o LowStockLocking \o <<Rel("service")>>,
     CancelProgram("item1"),
     <<Acq("service"), Find("inventory_items")>> \o ItemMethod("item1")
         \o SaveItemLocking \o <<Rel("service")>>,
     <<Acq("service"), Find("inventory_items"), Find("warehouses")>>
         \o SaveItemLocking \o <<Rel("service")>>}

\* A sweep that takes the service lock itself around its cancellations
SweepProgramLocked ==
    <<Acq("service"), Find("reservations")>> \o CancelProgram("item1")
        \o <<Rel("service")>>

\* cleanup_expired_reservations with one expired record: the list is taken
\* without any lock, then cancel_reservation is called.
SweepProgram == <<Find("reservations")>> \o CancelProgram("item1")

Running(t) == th[t].pc = "lk_run"

Holder(x) == {t \in AllThreads : x \in th[t].held}

\* A caller starts a call.
LockCall(t, program) ==
    /\ StartCall(t)
    /\ calls' = calls + 1
    /\ th' = [th EXCEPT ![t] = [IdleFrame EXCEPT !.pc = "lk_run", !.op = "call",
                                                  !.locks = program]]
    /\ UNCHANGED <<heap, inventory_items, reservations, warehouses, now,
                   service_lock, concurrent, ledger_vars, stop_cleanup>>

\* The cleanup worker starts a sweep.
LockSweep ==
    /\ Free(Worker)
    /\ th' = [th EXCEPT ![Worker] =
                 [IdleFrame EXCEPT !.pc = "lk_run",
                                   !.op = "cleanup_expired_reservations",
                                   !.locks = SweepProgram]]
    /\ UNCHANGED <<heap, inventory_items, reservations, warehouses, now,
                   service_lock, phase_vars, ledger_vars, stop_cleanup>>

\* The next access of a running call.  acq waits until nobody holds the lock,
\* the caller itself included; after its last access the call returns.
LockStep(t) ==
    LET f == th[t]
        a == Head(f.locks)
        held == CASE a.e = "acq" -> f.held \cup {a.x}
                  [] a.e = "rel" -> f.held \ {a.x}
                  [] OTHER -> f.held
    IN
    /\ Running(t)
    /\ a.e = "acq" => Holder(a.x) = {}
    /\ th' = [th EXCEPT ![t] =
                 IF Len(f.locks) = 1
                 THEN [IdleFrame EXCEPT !.pc = "returned", !.op = f.op]
                 ELSE [f EXCEPT !.locks = Tail(f.locks), !.held = held]]
    /\ service_lock' = IF a.x # "service" THEN service_lock
                       ELSE IF a.e = "acq" THEN t ELSE NoThread
    /\ UNCHANGED <<heap, inventory_items, reservations, warehouses, now,
                   phase_vars, ledger_vars, stop_cleanup>>

InitLocks == Stocked(TRUE)

NextLocks ==
    \/ \E t \in Threads, program \in CallerPrograms : LockCall(t, program)
    \/ LockSweep
    \/ \E t \in AllThreads : LockStep(t)

\* Every thread is scheduled, and a thread waiting for a lock that is free
\* again and again gets it.
SpecLocks ==
    /\ InitLocks
    /\ [][NextLocks]_vars
    /\ \A t \in AllThreads : SF_vars(LockStep(t))

Waits(t, x) == Running(t) /\ Head(th[t].locks) = Acq(x)

\* C39: a thread that is about to acquire the service lock does not hold it;
\* a thread that is about to acquire any lock holds no entry lock and not the
\* repository lock; a lock a thread waits for is held by another, running
\* thread, and the holder of an entry lock or of the repository lock is not
\* itself about to acquire a lock; and every call that has started returns.
C39_DeadlockFree ==
    /\ [](\A t \in AllThreads :
            /\ Waits(t, "service") => "service" \notin th[t].held
            /\ \A x \in EntryOrRepositoryLocks \cup {"service"} :
                   Waits(t, x) =>
                       /\ th[t].held \cap EntryOrRepositoryLocks = {}
                       /\ \A u \in Holder(x) :
                              /\ u # t
                              /\ Running(u)
                              /\ x \in EntryOrRepositoryLocks
                                     => Head(th[u].locks).e # "acq")
    /\ \A t \in AllThreads : Running(t) ~> ~Running(t)

\* A caller waits for the service lock held by the sweep's cancellation, which
\* is inside an entry method, while the other caller, outside the service
\* lock, is inside a repository write.
C39_Witness ==
    \E t, u \in Threads :
        /\ Waits(t, "service")
        /\ "item1" \in th[Worker].held /\ "service" \in th[Worker].held
        /\ "repository" \in th[u].held

\* thread u is inside a save_* call, holding the repository lock, about to
\* write map m
InsideSave(u, m) ==
    /\ Running(u)
    /\ "repository" \in th[u].held
    /\ Head(th[u].locks) = Write(m)

\* C40: no find_* lookup or scan of one of the repository's maps is made
\* while another thread is inside a save_* write of the same map.
C40_LookupsExcludeWrites ==
    [][\A t \in AllThreads : \A m \in {"inventory_items", "reservations", "warehouses"} :
           (Running(t) /\ Head(th[t].locks) = Find(m) /\ LockStep(t))
               => \A u \in AllThreads \ {t} : ~InsideSave(u, m)]_vars

=============================================================================
